---- MODULE Spec2Model ----
(***************************************************************************)
(* Data collection pipeline of the student-jobs-platform backend.          *)
(*                                                                         *)
(* Two collection paths exist in the repository and both are modelled:     *)
(*   - CollectionOrchestrator (services/scrapers/orchestrator) driving     *)
(*     SourceAdapter.collect() and jobRepository.saveJobs();               *)
(*   - DataCollector + CollectionScheduler (services/data-collection)      *)
(*     driving collect -> transform -> validate -> deduplicate -> persist. *)
(* BaseScraper.collect, the scraper behind SourceAdapter.collect(), is     *)
(* modelled on its own as well.  The variable path selects which of them a *)
(* behaviour exercises.                                                    *)
(***************************************************************************)
EXTENDS Integers, Sequences, FiniteSets, TLC

(***************************************************************************)
(* Bounds of the model.                                                    *)
(***************************************************************************)
\* manual / cron invocations of CollectionOrchestrator.collectFromSource
MaxCalls == 2
\* manual / cron invocations made while a collectFromAllSources is under way
MaxBatchCalls == 1
\* records in one CollectionResult.jobs returned by an adapter
MaxJobs == 2
\* distinct external ids an upstream source hands out
MaxExtId == 1
\* runNow / cron invocations of DataCollector.collectFromSource
MaxDcCalls == 2
\* jobs in the list a DataSource.collect() resolves to
MaxRawJobs == 3
\* distinct sourceJobIds an upstream DataSource hands out
MaxSourceJobId == 2
\* DataSource.priority ranges over 1..MaxPriority
MaxPriority == 2
\* detail URLs collectJobUrls() of a scraper returns
MaxUrls == 2

(***************************************************************************)
(* CollectionOrchestrator: registry and configuration.                     *)
(***************************************************************************)
\* sources in registration order (Map insertion order of this.sources)
registry == <<"A", "B", "C">>

Sources == {registry[i] : i \in 1..Len(registry)}

\* ids a manual trigger may pass: the registered ones and an unknown one
TriggerIds == Sources \cup {"nosuch"}

ExtIds == 1..MaxExtId

NoRun == 0

\* a task lives from its creation until the last promise awaiting it has
\* resumed: at most one per pending manual/cron call, plus one for the batch
Slots == 1..(IF MaxCalls > MaxBatchCalls THEN MaxCalls ELSE MaxBatchCalls + 1)

\* JobData records an adapter for source s can return (identity fields)
JobDataOf(s) == [source : {s}, externalId : ExtIds]

RECURSIVE SeqsUpTo(_, _)
SeqsUpTo(S, n) ==
  IF n = 0 THEN {<<>>}
  ELSE LET shorter == SeqsUpTo(S, n - 1)
       IN shorter \cup {Append(q, x) : q \in {p \in shorter : Len(p) = n - 1}, x \in S}

Range(q) == {q[i] : i \in 1..Len(q)}

NoResult == [status |-> "none", jobs |-> <<>>, jobsStored |-> 0, errors |-> <<>>]

\* what SourceAdapter.collect() may resolve to: BaseScraper.collect and
\* JobTechService.collectJobs set status from the error list and the job list
AdapterResults(s) ==
  LET batches == SeqsUpTo(JobDataOf(s), MaxJobs)
  IN  {[status |-> "success", jobs |-> b, jobsStored |-> Len(b), errors |-> <<>>] :
         b \in batches}
      \cup
      {[status |-> "partial", jobs |-> b, jobsStored |-> Len(b),
        errors |-> <<"job_extraction_error">>] : b \in batches \ {<<>>}}
      \cup
      {[status |-> "failure", jobs |-> <<>>, jobsStored |-> 0,
        errors |-> <<"collection_error">>]}

VARIABLES
  path,         \* "orchestrator", "datacollector" or "scraper": the path exercised
  enabled,      \* source.config.enabled per registered source
  activeTasks,  \* CollectionOrchestrator.activeTasks: source -> run or NoRun
  runs,         \* the task promises created by collectFromSource that are alive
  calls,        \* pending collectFromSource promises of manual/cron callers
  budget,       \* manual/cron invocations the behaviour may still make
  batch,        \* the collectFromAllSources invocation
  lastSettle,   \* how the most recently settled collectFromSource call ended
  store,        \* rows of the jobs table
  priority,     \* DataSource.priority per source
  upstream,     \* the jobs each DataSource.collect() currently resolves to
  dcRuns,       \* the DataCollector.collectFromSource invocations under way
  dcBatch,      \* the DataCollector.collectFromAllSources invocation
  lastRun,      \* per source, how its most recent DataCollector run ended
  scrape,       \* one BaseScraper.collect() invocation
  dedup,        \* one Deduplicator.deduplicate() invocation
  validation,   \* one validateJobData() invocation
  jobtech,      \* one JobTechService.collectJobs() invocation
  limiter,      \* the rate limiting interceptor of one HTTP client
  fetch,        \* one JobTechApiSource.fetchJobs() invocation
  detect,       \* the change detection of one scraper source
  score,        \* the scores of one record
  sched,        \* the cron tasks of one scheduler and the runs they started
  resultLog,    \* the result files written by saveCollectionResult
  auth          \* the OAuth token cache of one JobTechApiSource

orchVars == <<enabled, activeTasks, runs, calls, budget, batch, lastSettle>>

\* what only the orchestrator changes, and what only the DataCollector does
orchVarsIdle == <<activeTasks, runs, calls, batch, lastSettle>>

dcVars == <<priority, upstream, dcRuns, dcBatch, lastRun>>

\* what the components exercised on their own keep: each is changed by its own
\* actions only
extVars == <<detect, score, sched, resultLog, auth>>

soloVars == <<dedup, validation, jobtech, limiter, fetch>>

auxVars == <<soloVars, extVars>>

restDedup == <<validation, jobtech, limiter, fetch, extVars>>

restValidation == <<dedup, jobtech, limiter, fetch, extVars>>

restJobTech == <<dedup, validation, limiter, fetch, extVars>>

restLimiter == <<dedup, validation, jobtech, fetch, extVars>>

restFetch == <<dedup, validation, jobtech, limiter, extVars>>

restDetect == <<soloVars, score, sched, resultLog, auth>>

restScore == <<soloVars, detect, sched, resultLog, auth>>

restSched == <<soloVars, detect, score, resultLog, auth>>

restLog == <<soloVars, detect, score, sched, auth>>

restAuth == <<soloVars, detect, score, sched, resultLog>>

vars == <<path, enabled, activeTasks, runs, calls, budget, batch, lastSettle, store,
          priority, upstream, dcRuns, dcBatch, lastRun, scrape, auxVars>>

(***************************************************************************)
(* The jobs table: @@unique([externalId, source]).                         *)
(* A row is [source, externalId, n]; n numbers the rows of one key so that *)
(* two rows of the same key are distinct elements of the table.            *)
(***************************************************************************)
RowsOf(st, src, ext) == {r \in st : r.source = src /\ r.externalId = ext}

\* prisma.job.findFirst({ where: { externalId, source } })
FindFirst(st, src, ext) == RowsOf(st, src, ext) # {}

UniqueViolationNever(st, src, ext) == FALSE

\* the unique index on (externalId, source) rejects a second row of a key
UniqueViolation(st, src, ext) == RowsOf(st, src, ext) # {}

\* prisma.job.create: the table after inserting a row for the key
InsertRow(st, src, ext) ==
  st \cup {[source |-> src, externalId |-> ext, n |-> Cardinality(RowsOf(st, src, ext)) + 1]}

(***************************************************************************)
(* DataCollector / CollectionScheduler (services/data-collection): JobDto, *)
(* the pipeline stages as functions, and the state of a pipeline run.      *)
(* The JobDto fields sourceId / sourceJobId are the source / externalId    *)
(* columns of the jobs table and fall under its unique index.              *)
(***************************************************************************)
SourceJobIds == 1..MaxSourceJobId

\* a title is a sequence of tokens: " " is white space, "hiring" one of the
\* prefixes normalizeTitle removes, "dev" any other word
CommonPrefixes == {"hiring"}

\* raw titles an upstream source delivers
RawTitles == {<<" ", "dev">>, <<"hiring">>}

JobDtoOf(s) == [sourceId : {s}, sourceJobId : SourceJobIds, title : RawTitles]

RECURSIVE TrimStart(_)
TrimStart(t) == IF t # <<>> /\ Head(t) = " " THEN TrimStart(Tail(t)) ELSE t

RECURSIVE TrimEnd(_)
TrimEnd(t) ==
  IF t # <<>> /\ t[Len(t)] = " " THEN TrimEnd(SubSeq(t, 1, Len(t) - 1)) ELSE t

\* String.prototype.trim
Trim(t) == TrimEnd(TrimStart(t))

\* normalized.replace(/^(looking for|seeking|hiring|...)/i, '')
RemovePrefix(t) == IF t # <<>> /\ Head(t) \in CommonPrefixes THEN Tail(t) ELSE t

\* normalized.replace(/\s+/g, ' ')
RECURSIVE CollapseSpaces(_)
CollapseSpaces(t) ==
  IF Len(t) < 2 THEN t
  ELSE IF t[1] = " " /\ t[2] = " " THEN CollapseSpaces(Tail(t))
       ELSE <<Head(t)>> \o CollapseSpaces(Tail(t))

\* DataTransformer.normalizeTitle
NormalizeTitle(t) == Trim(CollapseSpaces(RemovePrefix(Trim(t))))

\* DataTransformer.transformJob: identity fields are copied, the title normalized
TransformJob(job) == [job EXCEPT !.title = NormalizeTitle(@)]

\* DataTransformer.transform: Promise.all over the jobs, order kept
Transform(jobs) == [k \in 1..Len(jobs) |-> TransformJob(jobs[k])]

\* jobSchema.parse: title is z.string().min(1) (the upper length limit of 255
\* is out of reach of the titles above)
IsValidJob(job) == Len(job.title) >= 1

\* DataValidator.validate: the validJobs list
ValidJobs(jobs) == SelectSeq(jobs, IsValidJob)

\* existingJobMap.has(`${job.sourceId}:${job.sourceJobId}`)
ExactMatch(job, existing) ==
  \E e \in existing : e.source = job.sourceId /\ e.externalId = job.sourceJobId

\* Deduplicator.deduplicate with an empty jobsToUpdate list
JobsToUpdateNone(newJobs, existing) == <<>>

\* Deduplicator.deduplicate: jobsToUpdate
JobsToUpdate(newJobs, existing) ==
  LET Hit(j) == ExactMatch(j, existing) IN SelectSeq(newJobs, Hit)

\* Deduplicator.deduplicate: jobsToCreate
JobsToCreate(newJobs, existing) ==
  LET Miss(j) == ~ExactMatch(j, existing) IN SelectSeq(newJobs, Miss)

\* the sourceJobIds of a list of jobs
KeysOf(jobs) == {jobs[k].sourceJobId : k \in 1..Len(jobs)}

DcSlots == 1..(IF MaxDcCalls > 1 THEN MaxDcCalls ELSE 1)

\* what is remembered of the most recent finished run of a source: how it
\* ended, the stage it ended in, the keys it created and those it routed to
\* update, and (healed) the keys the run finished before it had created when
\* that run failed inside createJobs
NoLastRun ==
  [st |-> "none", fault |-> FALSE, out |-> {}, stage |-> "none", created |-> {},
   updated |-> {}, healed |-> {}]

\* a slot holding no pipeline run
DcFreeRun ==
  [src |-> "none", pc |-> "free", jobs |-> <<>>, toCreate |-> <<>>, toUpdate |-> <<>>,
   i |-> 0, prev |-> NoLastRun]

NoDcBatch == [st |-> "unused", order |-> <<>>, i |-> 0, run |-> NoRun, started |-> <<>>]

\* the upstream of the first source offers up to n jobs, the others none: rows
\* are keyed by source, so the runs of different sources do not interact
UpstreamConfigs(n) ==
  {[s \in Sources |-> IF s = registry[1] THEN b ELSE <<>>] :
     b \in SeqsUpTo(JobDtoOf(registry[1]), n)}

\* the DataCollector is not exercised
DcUnused ==
  /\ priority = [s \in Sources |-> 1]
  /\ upstream = [s \in Sources |-> <<>>]
  /\ dcRuns = [r \in DcSlots |-> DcFreeRun]
  /\ dcBatch = NoDcBatch
  /\ lastRun = [s \in Sources |-> NoLastRun]

\* what validateJobData finds in an extracted record: no issue, issues of
\* warning severity only, or at least one issue of error severity
ValidationClasses == {"valid", "warnings", "errors"}

\* no collect() of a scraper adapter is exercised
KeepsRecordValidOnly(issues) == issues = "valid"

\* validationResult.valid, or every issue has a severity other than 'error'
KeepsRecord(issues) == issues # "errors"

\* listing pages of a scraper source: paginationConfig.maxPages
MaxListingPages == 2

\* seen: what validateJobData found in each record extracted so far; handed:
\* the list the orchestrator passed to jobRepository.saveJobs; lostPages: the
\* listing pages after the first whose request failed inside collectJobUrls;
\* failed: context.url of each job_extraction_error in errors, in order;
\* extracted: the URL behind each record of seen
NoScrape ==
  [st |-> "unused", n |-> 0, i |-> 0, jobs |-> <<>>, errors |-> 0, fetched |-> 0,
   validated |-> 0, status |-> "none", seen |-> <<>>, jobsStored |-> 0,
   handed |-> <<>>, lostPages |-> 0, failed |-> <<>>, extracted |-> <<>>]

\* a catch that notes the failure without the URL
ErrorUrlsAfterCatchNoContext(failed, url) == Append(failed, 0)

\* catch (error): errors.push({code: 'job_extraction_error', ..., context: {url}})
ErrorUrlsAfterCatch(failed, url) == Append(failed, url)

(***************************************************************************)
(* Deduplicator.deduplicate(newJobs, existingJobs), exercised on its own.  *)
(* A title or company is a sequence of characters.                         *)
(***************************************************************************)
MaxNewJobs == 2

MaxExistingJobs == 2

DedupSources == {registry[1], registry[2]}

\* "S d" and "sd" differ as text and have one key for fuzzy matching
DedupTitles == {<<"S", " ", "d">>, <<"s", "d">>}

DedupCompanies == {<<"a">>, <<"b">>}

DedupDto ==
  [sourceId : DedupSources, sourceJobId : SourceJobIds,
   title : DedupTitles, company : DedupCompanies]

\* String.prototype.toLowerCase over the characters in use
ToLowerCase(str) == [k \in 1..Len(str) |-> IF str[k] = "S" THEN "s" ELSE str[k]]

\* the characters matched by \s and by \w
WhitespaceChars == {" "}

WordChars == {"S", "s", "d", "a", "b"}

IsNotWhitespace(c) == c \notin WhitespaceChars

IsWordChar(c) == c \in WordChars

\* input.toLowerCase().replace(/\s+/g, '').replace(/[^\w]/g, '')
NormalizeForMatching(input) ==
  SelectSeq(SelectSeq(ToLowerCase(input), IsNotWhitespace), IsWordChar)

\* this.normalizeForMatching(`${job.title}:${job.company}`)
TitleCompanyKey(job) == NormalizeForMatching(job.title \o <<":">> \o job.company)

\* `${job.sourceId}:${job.sourceJobId}`; a source id holds no colon
SourceKey(job) == <<job.sourceId, ":", job.sourceJobId>>

\* the keys of existingJobMap
ExistingJobMap(existingJobs) == {SourceKey(e) : e \in Range(existingJobs)}

HasExactMatchSameTitle(job, existingJobs) ==
  \E e \in Range(existingJobs) : SourceKey(e) = SourceKey(job) /\ e.title = job.title

\* existingJobMap.has(sourceKey)
HasExactMatch(job, existingJobs) == SourceKey(job) \in ExistingJobMap(existingJobs)

\* existingJobTitleCompanyMap.get(titleCompanyKey) || []
PossibleMatches(job, existingJobs) ==
  LET SameKey(e) == TitleCompanyKey(e) = TitleCompanyKey(job)
  IN  SelectSeq(existingJobs, SameKey)

\* possibleMatches.filter(existingJob => existingJob.sourceId !== job.sourceId)
OtherSourceMatches(job, existingJobs) ==
  LET OtherSource(e) == e.sourceId # job.sourceId
  IN  SelectSeq(PossibleMatches(job, existingJobs), OtherSource)

NoDedupOut == [jobsToCreate |-> <<>>, jobsToUpdate |-> <<>>, logged |-> <<>>]

\* the loop over newJobs; logged collects the "Potential cross-source duplicate
\* detected" entries written to the log
RECURSIVE Deduplicate(_, _)
Deduplicate(newJobs, existingJobs) ==
  IF newJobs = <<>>
  THEN NoDedupOut
  ELSE LET job == Head(newJobs)
           rest == Deduplicate(Tail(newJobs), existingJobs)
           others == OtherSourceMatches(job, existingJobs)
       IN  IF HasExactMatch(job, existingJobs)
           THEN [rest EXCEPT !.jobsToUpdate = <<job>> \o @]
           ELSE [rest EXCEPT
                   !.jobsToCreate = <<job>> \o @,
                   !.logged = IF others # <<>>
                              THEN <<[newJob |-> job, existingJobs |-> others]>> \o @
                              ELSE @]

\* the stored jobs handed in come from the jobs table: no two share a key
StoredJobLists ==
  {e \in SeqsUpTo(DedupDto, MaxExistingJobs) :
     \A i, j \in 1..Len(e) : SourceKey(e[i]) = SourceKey(e[j]) => i = j}

NoDedup ==
  [st |-> "unused", newJobs |-> <<>>, existingJobs |-> <<>>, out |-> NoDedupOut]

(***************************************************************************)
(* validateJobData(job), exercised on its own.  A text field is Absent     *)
(* (undefined at run time) or its length; a date is Absent, InvalidDate    *)
(* (new Date(NaN)) or a day number, and Now is the day of the call.        *)
(***************************************************************************)
Now == 2

Absent == -1

InvalidDate == -2

ValidatedJobs ==
  [title : {Absent, 0, 2, 5},
   description : {Absent, 0, 10, 60},
   sourceUrl : {"", "ftp://x", "https://x"},
   companyName : {"", "n"},
   website : {"absent", "x"},
   city : {"absent", "c"},
   publicationDate : {Absent, InvalidDate, 1, 3},
   expirationDate : {Absent, 0, 4},
   deadlineDate : {Absent, 0, 4},
   relevance : {0, 2}]

\* !value of an optional string
IsFalsyText(t) == t = Absent \/ t = 0

\* isValidURL: new URL(value) parses and the protocol is http: or https:
IsValidURL(u) == u = "https://x"

\* isValidDate: value instanceof Date && !isNaN(value.getTime())
IsValidDate(d) == d \notin {Absent, InvalidDate}

\* a < b on two Date operands: false when either is an invalid date
DateBefore(a, b) == IsValidDate(a) /\ IsValidDate(b) /\ a < b

Issue(field, severity) == [field |-> field, severity |-> severity]

IssueIf(cond, field, severity) == IF cond THEN <<Issue(field, severity)>> ELSE <<>>

\* validateRequiredFields; externalId and source are present
ValidateRequiredFields(job) ==
  IssueIf(IsFalsyText(job.title), "title", "error")
  \o IssueIf(job.sourceUrl = "", "sourceUrl", "error")
  \o IssueIf(IsFalsyText(job.description), "description", "error")
  \o IssueIf(job.companyName = "", "company.name", "error")
  \o IssueIf(job.publicationDate = Absent, "publicationDate", "error")

\* validateFormats
ValidateFormats(job) ==
  IssueIf(job.sourceUrl # "" /\ ~IsValidURL(job.sourceUrl), "sourceUrl", "error")
  \o IssueIf(job.website # "absent" /\ ~IsValidURL(job.website),
             "company.website", "warning")
  \o IssueIf(job.publicationDate # Absent /\ ~IsValidDate(job.publicationDate),
             "publicationDate", "error")

\* assessStudentRelevance reads job.title.toLowerCase() and
\* job.description.toLowerCase(): a TypeError when either is undefined
RelevanceThrows(job) == job.title = Absent \/ job.description = Absent

\* validateBusinessRules, with the issue of assessStudentRelevance at its end
ValidateBusinessRules(job) ==
  IssueIf(~IsFalsyText(job.title) /\ job.title < 3, "title", "warning")
  \o IssueIf(~IsFalsyText(job.description) /\ job.description < 50,
             "description", "warning")
  \o IssueIf(DateBefore(Now, job.publicationDate), "publicationDate", "warning")
  \o IssueIf(DateBefore(job.expirationDate, job.publicationDate),
             "expirationDate", "error")
  \o IssueIf(DateBefore(job.deadlineDate, job.publicationDate),
             "applicationDetails.deadlineDate", "warning")
  \o IssueIf(DateBefore(job.deadlineDate, Now),
             "applicationDetails.deadlineDate", "info")
  \o IssueIf(job.relevance < 2, "metadata.studentRelevanceScore", "info")

HasErrorsOrWarnings(issues) ==
  \E k \in 1..Len(issues) : issues[k].severity \in {"error", "warning"}

\* issues.some(issue => issue.severity === 'error')
HasErrors(issues) == \E k \in 1..Len(issues) : issues[k].severity = "error"

NoValidationResult == [thrown |-> FALSE, valid |-> FALSE, issues |-> <<>>]

\* scrapers/validators/jobDataValidator.ts
ValidateJobData(job) ==
  IF RelevanceThrows(job)
  THEN [NoValidationResult EXCEPT !.thrown = TRUE]
  ELSE LET issues == ValidateRequiredFields(job) \o ValidateFormats(job)
                       \o ValidateBusinessRules(job)
       IN  [thrown |-> FALSE, valid |-> ~HasErrors(issues), issues |-> issues]

\* scrapers/types/validators/jobDataValidator.ts
ValidateJobDataTypes(job) ==
  LET issues ==
        IssueIf(IsFalsyText(job.title), "title", "error")
        \o IssueIf(job.companyName = "", "company.name", "error")
        \o IssueIf(IsFalsyText(job.description), "description", "error")
        \o IssueIf(job.city = "absent", "location", "warning")
        \o IssueIf(job.sourceUrl = "", "sourceUrl", "warning")
  IN  [thrown |-> FALSE, valid |-> ~HasErrors(issues), issues |-> issues]

NoValidation ==
  [st |-> "unused", job |-> CHOOSE job \in ValidatedJobs : TRUE, by |-> "none",
   result |-> NoValidationResult]


(***************************************************************************)
(* JobTechService: collectJobs over the axios client whose response        *)
(* interceptor is handleApiError.                                          *)
(***************************************************************************)
\* jobTechConfig.retryConfig
MaxRetries == 3

InitialDelay == 1000

BackoffFactor == 2

\* JOBTECH_SEARCH_DEFAULT_LIMIT, and the cap on the pages of one collection
SearchLimit == 20

PageCap == 50

\* total.value of the initial search: no page, one page, two, three, and more
\* pages than the cap
Totals == {0, 20, 21, 45, 1200}

\* the HTTP statuses of a failed attempt: rate limited, unavailable, not found
ErrorStatuses == {429, 503, 404}

\* the statuses among them that a repeated request cannot cure
NonTransientStatuses == {404}

\* what the hits of a fetched page do when they are processed: no hit is kept
\* (none, or all with an error issue), a hit is kept, or processing one throws
PageHits == {"dropped", "kept", "throws"}

RECURSIVE Pow(_, _)
Pow(b, e) == IF e = 0 THEN 1 ELSE b * Pow(b, e - 1)

\* Math.ceil(totalJobs / limit)
CeilDiv(a, b) == (a + b - 1) \div b

Min(a, b) == IF a <= b THEN a ELSE b

DelayTimeLinear(retryCount) == InitialDelay * (retryCount + 1)

\* initialDelay * Math.pow(backoffFactor, retryCount)
DelayTime(retryCount) == InitialDelay * Pow(BackoffFactor, retryCount)

\* waits and codes: the delays slept and the statuses received for the
\* request under way (of the last request once the run is done)
NoJobTech ==
  [st |-> "unused", page |-> 0, maxPages |-> 0, retryCount |-> 0, waits |-> <<>>,
   codes |-> <<>>, pageErrors |-> 0, anyKept |-> FALSE, anyThrow |-> FALSE,
   status |-> "none"]


(***************************************************************************)
(* The request interceptors that limit the request rate:                   *)
(* JobTechService.handleRateLimiting and BaseScraper.rateLimit.  Time is   *)
(* counted in ticks, WindowTicks of them to a minute.                      *)
(***************************************************************************)
\* rateLimitPerMinute of the source's configuration
RateLimit == 2

WindowTicks == 4

\* requests issued through the client, and the ticks observed
MaxRequests == 5

MaxTime == 6

Ticks == 0..(MaxTime + WindowTicks)

\* Math.floor(60000 / this.config.rateLimitPerMinute)
ScraperDelay == WindowTicks \div RateLimit

\* waiting[t]: requests asleep in the interceptor until tick t; sent[t]:
\* requests the interceptor released to the network at tick t
NoLimiter ==
  [kind |-> "unused", now |-> 0, counter |-> 0, resetTime |-> 0, left |-> 0,
   waiting |-> [t \in Ticks |-> 0], sent |-> [t \in Ticks |-> 0]]


(***************************************************************************)
(* JobTechApiSource.fetchJobs: offset/limit pagination of POST /search.    *)
(***************************************************************************)
\* page requests of one fetchJobs call the behaviours are followed for
MaxFetchRequests == 52

\* params.limit || 100, with the limit: 100 that collect() passes
FetchLimit == 100

\* hits.length of a response: an empty page, a short page, a full page
HitCounts == {0, 1, FetchLimit}

NoFetch ==
  [st |-> "unused", delayed |-> FALSE, offset |-> 0, requests |-> 0, jobs |-> 0,
   lastHits |-> 0, lastTotal |-> 0]


(***************************************************************************)
(* BaseScraper.detectStructuralChanges: fingerprint of the listing page,   *)
(* comparison with the stored one, analysis of the two snapshots.  A page  *)
(* is the list of the elements directly under <body>; each of them has a   *)
(* tag name, a class and a list of child tags.  The configuration has      *)
(* listingSelector ".job", detailLinkSelector "a" and one field selector   *)
(* "span".  Writes to the snapshot directory are taken to succeed.         *)
(***************************************************************************)
\* elements directly under <body> in the pages the behaviours are followed for
MaxListings == 2

\* change detection passes of one behaviour
MaxPasses == 3

ListingSelector == ".job"

DetailLinkSelector == "a"

FieldSelector == "span"

KidLists == {<<>>, <<"a">>, <<"span">>, <<"a", "span">>}

PageElements == [tagName : {"div", "li"}, class : {"job", "box"}, kids : KidLists]

Pages == SeqsUpTo(PageElements, MaxListings)

\* what element.prop('tagName') yields on cheerio.load(child)('html'): the
\* selection holds no element ("") or the <html> wrapper the library built
\* around the child ("html"), depending on the cheerio in use
ChildTagNames == {"", "html"}

\* extractStructure of one child of <body>, as far as the caller reads it
ChildStructure(child, childTag) == [tagName |-> childTag]

\* extractStructure($('body')): { tagName, classes, id, childCount, childTypes };
\* the structures of the children are computed and only their tagName is kept
ExtractStructure(page, childTag) ==
  [tagName |-> "body", classes |-> <<>>, id |-> "",
   childCount |-> Len(page),
   childTypes |-> [k \in 1..Len(page) |-> ChildStructure(page[k], childTag).tagName]]

\* sha256 of JSON.stringify(structure); the digest is taken as injective, so
\* two fingerprints are equal exactly when the structures are
CreateFingerprint(page, childTag) == ExtractStructure(page, childTag)

\* this.fingerprints.get('listing') || '' when nothing is stored
NoFingerprint ==
  [tagName |-> "", classes |-> <<>>, id |-> "", childCount |-> 0, childTypes |-> <<>>]

\* $(listingSelector): the elements of class job
Listings(page) == SelectSeq(page, LAMBDA e : e.class = "job")

KidCount(e, tag) == Cardinality({k \in 1..Len(e.kids) : e.kids[k] = tag})

RECURSIVE KidsTotal(_, _)
KidsTotal(elements, tag) ==
  IF elements = <<>> THEN 0
  ELSE KidCount(Head(elements), tag) + KidsTotal(Tail(elements), tag)

\* $(`${listingSelector} ${detailLinkSelector}`).length
LinkCount(page) == KidsTotal(Listings(page), "a")

\* $(selector).length for the field selector
FieldCount(page) == KidsTotal(page, "span")

Change(elementType, selectorPath, impact) ==
  [elementType |-> elementType, path |-> selectorPath, impact |-> impact]

Abs(x) == IF x < 0 THEN 0 - x ELSE x

\* "Check for changes in listing selector"
ListingChanges(oldN, newN) ==
  IF oldN = 0 /\ newN = 0 THEN <<Change("selector", ListingSelector, "high")>>
  ELSE IF oldN = 0 THEN <<Change("selector", ListingSelector, "low")>>
  ELSE IF newN = 0 THEN <<Change("selector", ListingSelector, "high")>>
  ELSE IF 2 * Abs(oldN - newN) > oldN
       THEN <<Change("selector", ListingSelector, "medium")>>
  ELSE <<>>

\* "Check for changes in detail link selector": only if newListings.length > 0
LinkChanges(newListings, oldN, newN) ==
  IF newListings = 0 THEN <<>>
  ELSE IF oldN = 0 /\ newN = 0 THEN <<Change("selector", DetailLinkSelector, "high")>>
  ELSE IF oldN = 0 THEN <<Change("selector", DetailLinkSelector, "low")>>
  ELSE IF newN = 0 THEN <<Change("selector", DetailLinkSelector, "high")>>
  ELSE <<>>

\* "Check field selectors"
FieldChanges(oldN, newN) ==
  IF oldN = 0 /\ newN = 0 THEN <<Change("field", FieldSelector, "medium")>>
  ELSE IF oldN = 0 THEN <<Change("field", FieldSelector, "low")>>
  ELSE IF newN = 0 THEN <<Change("field", FieldSelector, "high")>>
  ELSE <<>>

\* analyzeStructuralChanges with the page fetched again; oldSnapshot is the
\* stored listing.html, <<>> when there is none
AnalyzeStructuralChanges(oldSnapshot, newSnapshot) ==
  IF oldSnapshot = <<>> THEN <<Change("page", "/", "medium")>>
  ELSE ListingChanges(Len(Listings(oldSnapshot[1])), Len(Listings(newSnapshot)))
       \o LinkChanges(Len(Listings(newSnapshot)), LinkCount(oldSnapshot[1]),
                      LinkCount(newSnapshot))
       \o FieldChanges(FieldCount(oldSnapshot[1]), FieldCount(newSnapshot))

\* the catch of analyzeStructuralChanges
AnalysisFailed == <<Change("analysis", "/", "high")>>

\* changes.filter(change => change.impact === 'high')
MajorChanges(changes) == SelectSeq(changes, LAMBDA c : c.impact = "high")

\* a pass that would adapt as long as the first change is not high
CanAdaptAutomaticallyFirstOnly(changes) ==
  changes = <<>> \/ changes[1].impact # "high"

\* canAdaptAutomatically = majorChanges.length === 0
CanAdaptAutomatically(changes) == Len(MajorChanges(changes)) = 0

\* status = canAdaptAutomatically ? 'minor_changes' : 'major_changes'
ChangeStatus(changes) ==
  IF CanAdaptAutomatically(changes) THEN "minor_changes" ELSE "major_changes"

ChangeResult(status, changes, canAdapt) ==
  [status |-> status, changes |-> changes, canAdaptAutomatically |-> canAdapt]

NoChangeResult == ChangeResult("none", <<>>, FALSE)

\* both returns with status 'unchanged'
UnchangedResult == ChangeResult("unchanged", <<>>, TRUE)

\* the catch of detectStructuralChanges
DetectionFailed == ChangeResult("error", <<Change("unknown", "unknown", "high")>>, FALSE)

\* a changed page that leaves the map as it was
FingerprintAfterChangeKept(oldFingerprint, newFingerprint) == oldFingerprint

\* this.fingerprints.set('listing', newFingerprint) after the analysis
FingerprintAfterChange(oldFingerprint, newFingerprint) == newFingerprint

\* a first run that leaves the map as it was
FingerprintAfterFirstRunNone(newFingerprint) == NoFingerprint

\* this.fingerprints.set('listing', newFingerprint) on the first run
FingerprintAfterFirstRun(newFingerprint) == newFingerprint

\* detectSourceChanges: notifyAboutChanges is called when the result is not
\* 'unchanged' and some change has impact high
Notifies(result) ==
  result.status # "unchanged" /\ Len(MajorChanges(result.changes)) > 0

\* st: where the pass under way stands; childTag: see ChildTagNames;
\* fingerprint, snapshot: what is stored for the role 'listing'; hadPrior,
\* prev: whether a fingerprint was stored when the last pass began, and the
\* snapshot stored then; cur: the page the last pass fetched; result: what it
\* returned; notified: whether the orchestrator then called notifyAboutChanges;
\* prevStatus: the status the pass before the last one returned
NoDetect ==
  [st |-> "unused", childTag |-> "", passes |-> 0, fingerprint |-> NoFingerprint,
   snapshot |-> <<>>, hadPrior |-> FALSE, prev |-> <<>>, cur |-> <<>>,
   result |-> NoChangeResult, notified |-> FALSE, prevStatus |-> "none"]


(***************************************************************************)
(* assessStudentRelevance (jobDataValidator.ts) and calculateQualityScore  *)
(* (jobNormalizer).  A text is described by its length and by the student *)
(* keywords it contains; a keyword counts once however often it occurs.    *)
(***************************************************************************)
StudentKeywords ==
  {"student", "internship", "intern", "trainee", "part-time", "extra", "junior"}

\* titles: none, one without keyword, "student", a long one with "student",
\* "student internship" (which contains "intern"), one with every keyword
ScoredTitles ==
  { [len |-> 0, keywords |-> {}],
    [len |-> 15, keywords |-> {}],
    [len |-> 7, keywords |-> {"student"}],
    [len |-> 50, keywords |-> {"student"}],
    [len |-> 18, keywords |-> {"student", "internship", "intern"}],
    [len |-> 60, keywords |-> StudentKeywords] }

ScoredDescriptions ==
  { [len |-> 0, keywords |-> {}],
    [len |-> 50, keywords |-> {}],
    [len |-> 150, keywords |-> {"student"}],
    [len |-> 300, keywords |-> {"student", "internship", "intern"}],
    [len |-> 600, keywords |-> StudentKeywords] }

\* company, location and application details: nothing, the first item, all
InfoLevels == {"none", "some", "all"}

SkillCounts == {0, 1, 6}

\* partTime: workingHoursType contains "part"; shortTerm: employmentType
\* contains "temp" or "summer", or duration contains "month" or "week";
\* noExperience: the description contains "no experience"
ScoredJobs ==
  { j \in [title : ScoredTitles, description : ScoredDescriptions,
           partTime : BOOLEAN, shortTerm : BOOLEAN, noExperience : BOOLEAN,
           company : InfoLevels, location : InfoLevels, application : InfoLevels,
           skills : SkillCounts] :
      j.noExperience => j.description.len >= 50 }

\* studentRelevanceScore before it is scaled: 2 per keyword in the title, 1
\* per keyword in the description, 2 for each of the three further signs
RelevancePoints(job) ==
  2 * Cardinality(job.title.keywords)
  + Cardinality(job.description.keywords)
  + (IF job.partTime THEN 2 ELSE 0)
  + (IF job.shortTerm THEN 2 ELSE 0)
  + (IF job.noExperience THEN 2 ELSE 0)

\* const maxScore = 10
RelevanceMaxScore == 10

\* job.metadata.studentRelevanceScore = studentRelevanceScore / maxScore * 100
StudentRelevanceScore(job) == (RelevancePoints(job) * 100) \div RelevanceMaxScore

TitlePoints(len) ==
  IF len = 0 THEN 0
  ELSE IF len > 20 /\ len < 100 THEN 15
  ELSE IF len > 10 THEN 10
  ELSE 5

DescriptionPoints(len) ==
  IF len = 0 THEN 0
  ELSE IF len > 500 THEN 30
  ELSE IF len > 200 THEN 20
  ELSE IF len > 100 THEN 10
  ELSE 5

\* name 3, website 3, email or phone 4
CompanyPoints(level) == IF level = "none" THEN 0 ELSE IF level = "some" THEN 3 ELSE 10

\* city 5, address 3, coordinates 2
LocationPoints(level) == IF level = "none" THEN 0 ELSE IF level = "some" THEN 5 ELSE 10

\* url or email 10, deadlineDate 5
ApplicationPoints(level) == IF level = "none" THEN 0 ELSE IF level = "some" THEN 10 ELSE 15

\* Math.min(job.skills.length * 2, 10)
SkillPoints(n) == IF n > 0 THEN Min(n * 2, 10) ELSE 0

\* const maxScore = 100
QualityMaxScore == 100

\* calculateQualityScore(job) with metadata.studentRelevanceScore = relevance,
\* Absent when the field is not set; the sum is cut at maxScore
CalculateQualityScore(job, relevance) ==
  Min(TitlePoints(job.title.len)
      + DescriptionPoints(job.description.len)
      + CompanyPoints(job.company)
      + LocationPoints(job.location)
      + ApplicationPoints(job.application)
      + SkillPoints(job.skills)
      + (IF relevance # Absent /\ relevance # 0 THEN relevance \div 10 ELSE 0),
      QualityMaxScore)

\* relevance, quality: metadata.studentRelevanceScore and qualityScore of the
\* record, Absent until they are computed
NoScore ==
  [st |-> "unused", job |-> CHOOSE j \in ScoredJobs : TRUE,
   relevance |-> Absent, quality |-> Absent]


(***************************************************************************)
(* CollectionScheduler (initialize, startAll, stopAll, updateSchedule),    *)
(* DataCollector.updateSource and the orchestrator's                       *)
(* scheduleCollectionTasks, with node-cron reduced to the set of tasks     *)
(* that are running.  A task is known by its source and its expression.    *)
(***************************************************************************)
\* operations on the scheduler after its construction, per behaviour
MaxSchedOps == 3

\* runs of one source that are under way at a time
MaxInflight == 1

\* this.sources of the scheduler, in array order
schedRegistry == <<"A", "B">>

SchedSources == {schedRegistry[i] : i \in 1..Len(schedRegistry)}

InvalidExpression == "every now and then"

CronExpressions == {"0 0 * * *", "*/5 * * * *", InvalidExpression}

NoTask == "no task"

\* a call that validates nothing
CronValidateAlways(expression) == TRUE

\* cron.validate(expression); cron.schedule throws for the same expressions
CronValidate(expression) == expression # InvalidExpression

\* source.config.schedule.cron || this.frequencyToCron(frequency): "" stands
\* for a configuration without cron, whose frequency gives a fixed expression
CronOf(kind, expression) ==
  IF kind = "orchestrator" /\ expression = "" THEN "0 0 * * *" ELSE expression

CronTask(s, expression) == [source |-> s, expr |-> expression]

\* a stop that leaves the timer running
StopTaskNoStop(live, s, expression) == live

\* task.stop()
StopTask(live, s, expression) == live \ {CronTask(s, expression)}

SchedCall(op, s, expression) ==
  [op |-> op, source |-> s, expr |-> expression, threw |-> FALSE, rejected |-> {}]

\* cron.schedule(...) and this.schedules.set(source.id, task), past the check
\* of the expression.  A task the map held for the source is replaced in the
\* map and not stopped: it runs on, out of the map's reach
ScheduleTask(sc, s) ==
  LET old == CronTask(s, sc.schedules[s])
      replaced == sc.schedules[s] # NoTask
      orphaned == replaced /\ old \in sc.live
  IN  [sc EXCEPT !.live = (IF orphaned THEN @ \ {old} ELSE @)
                            \cup {CronTask(s, CronOf(sc.kind, sc.expr[s]))},
                 !.orphans[s] = IF orphaned THEN Append(@, sc.schedules[s]) ELSE @,
                 !.again[s] = @ \/ replaced,
                 !.schedules[s] = CronOf(sc.kind, sc.expr[s])]

\* the expression of source s is refused: nothing is created
RejectExpression(sc, s) ==
  [sc EXCEPT !.last.rejected = @ \cup {s}]

\* initialize() and scheduleCollectionTasks() from source i on: a disabled
\* source is skipped, a refused expression is caught and logged
RECURSIVE ScheduleEnabledFrom(_, _)
ScheduleEnabledFrom(sc, i) ==
  IF i > Len(schedRegistry) THEN sc
  ELSE LET s == schedRegistry[i]
       IN  IF ~sc.isEnabled[s] THEN ScheduleEnabledFrom(sc, i + 1)
           ELSE IF CronValidate(CronOf(sc.kind, sc.expr[s]))
           THEN ScheduleEnabledFrom(ScheduleTask(sc, s), i + 1)
           ELSE ScheduleEnabledFrom(RejectExpression(sc, s), i + 1)

\* startAll() from source i on: a task in the map is started, a source without
\* one is scheduled, and a refused expression ends the call with a throw
RECURSIVE StartAllFrom(_, _)
StartAllFrom(sc, i) ==
  IF i > Len(schedRegistry) THEN sc
  ELSE LET s == schedRegistry[i]
       IN  IF ~sc.isEnabled[s] THEN StartAllFrom(sc, i + 1)
           ELSE IF sc.schedules[s] # NoTask
           THEN StartAllFrom([sc EXCEPT !.live = @ \cup {CronTask(s, sc.schedules[s])}],
                             i + 1)
           ELSE IF CronValidate(sc.expr[s])
           THEN StartAllFrom(ScheduleTask(sc, s), i + 1)
           ELSE [RejectExpression(sc, s) EXCEPT !.last.threw = TRUE]

\* the loop of stopAll() and of scheduleCollectionTasks(): task.stop() for
\* every entry of the map, from source i on
RECURSIVE StopScheduledFrom(_, _)
StopScheduledFrom(sc, i) ==
  IF i > Len(schedRegistry) THEN sc
  ELSE LET s == schedRegistry[i]
       IN  IF sc.schedules[s] = NoTask THEN StopScheduledFrom(sc, i + 1)
           ELSE StopScheduledFrom(
                  [sc EXCEPT !.live = StopTask(@, s, sc.schedules[s])], i + 1)

\* this.schedules.clear()
ClearSchedules(sc) == [sc EXCEPT !.schedules = [s \in SchedSources |-> NoTask]]

\* an id that is not in this.sources
UnknownSource == "Z"

SchedSourceIds == SchedSources \cup {UnknownSource}

\* a refusal that comes after the existing task was stopped and deleted
UpdateRefusedAfterStop(sc, s, expression) ==
  [sc EXCEPT !.last.threw = TRUE, !.last.rejected = {s},
             !.live = StopTask(@, s, sc.schedules[s]), !.schedules[s] = NoTask]

\* throw new Error(`Invalid schedule expression`): the first statements of
\* updateSchedule, nothing has been touched
UpdateRefused(sc, s, expression) ==
  [sc EXCEPT !.last.threw = TRUE, !.last.rejected = {s}]

\* updateSchedule(sourceId, scheduleExpression) past the search of the source
UpdateScheduleOf(sc, s, expression) ==
  IF ~CronValidate(expression) THEN UpdateRefused(sc, s, expression)
  ELSE LET stopped == IF sc.schedules[s] = NoTask THEN sc
                      ELSE [sc EXCEPT !.live = StopTask(@, s, sc.schedules[s]),
                                      !.schedules[s] = NoTask]
           updated == [stopped EXCEPT !.expr[s] = expression]
       IN  IF updated.isEnabled[s] THEN ScheduleTask(updated, s) ELSE updated

\* updates of updateSource: isEnabled and scheduleExpression, each given or not
EnabledUpdates == {"keep", "true", "false"}

ExpressionUpdates == {"keep"} \cup CronExpressions

\* Object.assign(source, updates)
AssignUpdates(sc, s, en, expression) ==
  [sc EXCEPT !.isEnabled[s] = IF en = "keep" THEN @ ELSE en = "true",
             !.expr[s] = IF expression = "keep" THEN @ ELSE expression]

\* kind: "scheduler" for CollectionScheduler with DataCollector, "orchestrator"
\* for CollectionOrchestrator; schedules: the task stored per source, known by
\* its expression; live: the tasks node-cron is running; inflight: the runs
\* under way per source; stopped: stopAll was called and startAll was not
\* since; halted: the same, with updateSchedule counted like startAll; last:
\* the most recent call and how it ended; orphans: per source, the expressions
\* of the running tasks the map no longer holds; again: scheduleSource was
\* applied to the source while the map held a task for it
NoSched ==
  [st |-> "unused", kind |-> "scheduler",
   isEnabled |-> [s \in SchedSources |-> FALSE],
   expr |-> [s \in SchedSources |-> InvalidExpression],
   schedules |-> [s \in SchedSources |-> NoTask],
   live |-> {}, inflight |-> [s \in SchedSources |-> 0],
   stopped |-> FALSE, halted |-> FALSE,
   last |-> SchedCall("none", "A", NoTask), ops |-> 0,
   orphans |-> [s \in SchedSources |-> <<>>],
   again |-> [s \in SchedSources |-> FALSE]]


(***************************************************************************)
(* CollectionOrchestrator.saveCollectionResult: one file per call, named   *)
(* by source and timestamp.  The write is taken to succeed.                *)
(***************************************************************************)
\* n: files written so far; last: source, status and highest error severity
\* of the result in the file written last
NoLog == [n |-> 0, last |-> [src |-> "none", status |-> "none", severity |-> "none"]]

SaveCollectionResult(log, s, status, severity) ==
  [n |-> log.n + 1, last |-> [src |-> s, status |-> status, severity |-> severity]]

(***************************************************************************)
(* JobTechApiSource.authenticate: the OAuth client-credentials token and   *)
(* its cached expiry.  Time is Date.now() in milliseconds.                 *)
(***************************************************************************)
MaxClock == 180000

MaxAuthCalls == 4

\* `- 60000`: the cached expiry is set one minute before the token's own
SafetyMargin == 60000

\* how far the clock moves between two events
ClockStep == SafetyMargin \div 2

\* expires_in of a token response, in seconds
ExpiresIn == {60, 90, 120}

\* a cached expiry equal to the token's own expiry
ExpiresAtNoMargin(now, expiresIn) == now + (expiresIn * 1000)

\* Date.now() + (expires_in * 1000) - 60000
ExpiresAt(now, expiresIn) == now + (expiresIn * 1000) - SafetyMargin

\* accessToken && expiresAt && expiresAt > Date.now(); 0 is the falsy expiry
HasValidToken(a) == a.accessToken /\ a.expiresAt # 0 /\ a.expiresAt > a.now

\* validUntil: when the token the cache holds expires at the issuer;
\* pending: token requests in flight; last: the decision of the latest call
NoAuth ==
  [st |-> "unused", now |-> 0, accessToken |-> FALSE, expiresAt |-> 0, validUntil |-> 0,
   pending |-> 0, requests |-> 0, calls |-> 0,
   last |-> [decision |-> "none", cached |-> FALSE, left |-> 0]]


\* nor is any of the components added after them
ExtUnused ==
  /\ detect = NoDetect
  /\ score = NoScore
  /\ sched = NoSched
  /\ resultLog = NoLog
  /\ auth = NoAuth

\* none of the components exercised on their own is in use
AuxUnused ==
  /\ dedup = NoDedup
  /\ validation = NoValidation
  /\ jobtech = NoJobTech
  /\ limiter = NoLimiter
  /\ fetch = NoFetch

(***************************************************************************)
(* CollectionOrchestrator.collectFromSource, synchronous part.             *)
(***************************************************************************)
HasActiveTaskNever(s) == FALSE

\* this.activeTasks.has(sourceId)
HasActiveTask(s) == activeTasks[s] # NoRun

NewRun(s) ==
  [src |-> s, pc |-> "detect", res |-> NoResult, i |-> 0, saved |-> 0, out |-> "pending",
   byBatch |-> FALSE, logged |-> FALSE, detected |-> "none"]

\* a slot holding no task
FreeRun ==
  [src |-> "none", pc |-> "free", res |-> NoResult, i |-> 0, saved |-> 0, out |-> "pending",
   byBatch |-> FALSE, logged |-> FALSE, detected |-> "none"]

FreeSlot == CHOOSE r \in Slots : runs[r].pc = "free" /\ \A q \in Slots : runs[q].pc = "free" => r <= q

\* the task promise the call ends up awaiting
JoinedRun(s) == IF HasActiveTask(s) THEN activeTasks[s] ELSE FreeSlot

RunsAfterCall(s) == IF HasActiveTask(s) THEN runs ELSE [runs EXCEPT ![FreeSlot] = NewRun(s)]

ActiveAfterCall(s) ==
  IF HasActiveTask(s) THEN activeTasks ELSE [activeTasks EXCEPT ![s] = FreeSlot]

\* the enabled flags of the configured sources: at most one source disabled
EnabledConfigs == {e \in [Sources -> BOOLEAN] : Cardinality({s \in Sources : ~e[s]}) <= 1}

NoSettle ==
  [kind |-> "none", cause |-> "none", src |-> "none", run |-> NoRun,
   owner |-> FALSE, res |-> NoResult]

\* a continuation of an already settled task is still queued: the event loop
\* drains it before any timer, request or I/O completion is handled
MicrotaskPending ==
  \/ \E c \in calls : runs[c.run].pc = "settled"
  \/ batch.st = "waiting" /\ runs[batch.run].pc = "settled"

\* the orchestrator after initialize(); collectFromAllSources is not invoked
InitOrch ==
  /\ path = "orchestrator"
  /\ enabled \in EnabledConfigs
  /\ activeTasks = [s \in Sources |-> NoRun]
  /\ runs = [r \in Slots |-> FreeRun]
  /\ calls = {}
  /\ budget = MaxCalls
  /\ batch = [st |-> "unused", i |-> 0, run |-> NoRun, results |-> <<>>, errors |-> <<>>]
  /\ lastSettle = NoSettle
  /\ store = {}
  /\ DcUnused
  /\ scrape = NoScrape
  /\ AuxUnused
  /\ ExtUnused

\* the orchestrator after initialize(); collectFromAllSources will be invoked
InitOrchAll ==
  /\ path = "orchestrator"
  /\ enabled \in EnabledConfigs
  /\ activeTasks = [s \in Sources |-> NoRun]
  /\ runs = [r \in Slots |-> FreeRun]
  /\ calls = {}
  /\ budget = MaxBatchCalls
  /\ batch = [st |-> "idle", i |-> 0, run |-> NoRun, results |-> <<>>, errors |-> <<>>]
  /\ lastSettle = NoSettle
  /\ store = {}
  /\ DcUnused
  /\ scrape = NoScrape
  /\ AuxUnused
  /\ ExtUnused

\* collectFromSource(id) invoked by a caller that keeps the returned promise
CollectFromSource(id) ==
  /\ path = "orchestrator"
  /\ ~MicrotaskPending
  /\ budget > 0
  /\ budget' = budget - 1
  /\ IF id \notin Sources
     THEN \* throw new Error(`Source not found`)
          /\ lastSettle' = [kind |-> "error", cause |-> "source_not_found", src |-> id,
                            run |-> NoRun, owner |-> FALSE, res |-> NoResult]
          /\ UNCHANGED <<auxVars, activeTasks, runs, calls>>
     ELSE /\ calls' = calls \cup {[id |-> budget, src |-> id, run |-> JoinedRun(id),
                                   owner |-> ~HasActiveTask(id)]}
          /\ runs' = RunsAfterCall(id)
          /\ activeTasks' = ActiveAfterCall(id)
          /\ UNCHANGED lastSettle
  /\ UNCHANGED <<auxVars, dcVars, scrape, path, enabled, batch, store>>

\* POST /api/collection/source/:sourceId
ManualCollect == \E id \in TriggerIds : CollectFromSource(id)

\* the cron callback registered by scheduleCollectionTasks for enabled sources
CronFire == \E s \in Sources : enabled[s] /\ CollectFromSource(s)

(***************************************************************************)
(* The task created by collectFromSource (lines 182-228).                  *)
(***************************************************************************)
MarkerAfterTaskOnSuccess(at, s, threw) == IF threw THEN at ELSE [at EXCEPT ![s] = NoRun]

\* finally { this.activeTasks.delete(sourceId) }
MarkerAfterTask(at, s, threw) == [at EXCEPT ![s] = NoRun]

TaskOutcomeByStatus(res) == IF res.status = "failure" THEN "error" ELSE "result"

\* `return result`: the task resolves with the result whatever its status
TaskOutcome(res) == "result"

\* what source.detectStructuralChanges() can do: resolve with one of its four
\* statuses, or reject
DetectOutcomes == {"unchanged", "minor_changes", "major_changes", "error", "throws"}

\* a detection whose failure ends the run
AfterDetectionFatal(outcome) == IF outcome = "throws" THEN "settled" ELSE "collect"

\* detectSourceChanges returns false or true for every status and returns
\* false from its catch block; its value is not used by the task
AfterDetection(outcome) == "collect"

\* await this.detectSourceChanges(sourceId) returns and collect() starts
DetectDone(r) ==
  /\ path = "orchestrator"
  /\ ~MicrotaskPending
  /\ runs[r].pc = "detect"
  /\ \E outcome \in DetectOutcomes :
       runs' = [runs EXCEPT ![r].pc = AfterDetection(outcome), ![r].detected = outcome]
  /\ UNCHANGED <<auxVars, dcVars, scrape, path, enabled, activeTasks, calls, budget, batch, lastSettle, store>>

\* await source.collect() rejects: the finally block runs and the task rejects
CollectThrows(r) ==
  /\ path = "orchestrator"
  /\ ~MicrotaskPending
  /\ runs[r].pc = "collect"
  /\ runs' = [runs EXCEPT ![r].pc = "settled", ![r].out = "error", ![r].detected = "none"]
  /\ activeTasks' = MarkerAfterTask(activeTasks, runs[r].src, TRUE)
  /\ UNCHANGED <<auxVars, dcVars, scrape, path, enabled, calls, budget, batch, lastSettle, store>>

\* await source.collect() resolves: with jobs, saveJobs starts on the first
\* job; without jobs the result is logged and returned
CollectReturns(r) ==
  /\ path = "orchestrator"
  /\ ~MicrotaskPending
  /\ runs[r].pc = "collect"
  /\ \E res \in AdapterResults(runs[r].src) :
       IF Len(res.jobs) > 0
       THEN /\ runs' = [runs EXCEPT ![r].pc = "save", ![r].res = res, ![r].i = 1,
                                     ![r].detected = "none"]
            /\ UNCHANGED <<activeTasks, resultLog>>
       ELSE /\ runs' = [runs EXCEPT ![r].pc = "settled", ![r].res = res,
                                     ![r].out = TaskOutcome(res), ![r].logged = TRUE,
                                     ![r].detected = "none"]
            /\ resultLog' = SaveCollectionResult(resultLog, runs[r].src, res.status, "none")
            /\ activeTasks' = MarkerAfterTask(activeTasks, runs[r].src, FALSE)
  /\ UNCHANGED <<restLog, dcVars, scrape, path, enabled, calls, budget, batch, lastSettle, store>>

\* after the last job: saveJobs returns savedCount, result.jobsStored is set,
\* the result is logged and returned, the finally block clears the marker
AfterJob(r, saved) ==
  IF runs[r].i < Len(runs[r].res.jobs)
  THEN /\ runs' = [runs EXCEPT ![r].i = @ + 1, ![r].saved = saved]
       /\ UNCHANGED <<activeTasks, resultLog>>
  ELSE /\ runs' = [runs EXCEPT ![r].pc = "settled", ![r].out = TaskOutcome(runs[r].res),
                                ![r].saved = 0, ![r].logged = TRUE,
                                ![r].i = 0, ![r].res.jobsStored = saved]
       /\ resultLog' = SaveCollectionResult(resultLog, runs[r].src, runs[r].res.status,
                                            "none")
       /\ activeTasks' = MarkerAfterTask(activeTasks, runs[r].src, FALSE)

\* JobRepository.saveJob of job i settles: findFirst, then update of the row
\* found or create of a new one; a rejection is caught by saveJobs, which goes
\* on with the next job.  The lookup and the write that follows it are taken
\* in one step: rows are keyed by the job's source and the tasks of one
\* source do not overlap.
SaveJobDone(r) ==
  /\ path = "orchestrator"
  /\ ~MicrotaskPending
  /\ runs[r].pc = "save"
  /\ LET job == runs[r].res.jobs[runs[r].i]
     IN \E dbOk \in BOOLEAN :
          IF FindFirst(store, job.source, job.externalId)
          THEN /\ UNCHANGED store
               /\ AfterJob(r, IF dbOk THEN runs[r].saved + 1 ELSE runs[r].saved)
          ELSE IF dbOk /\ ~UniqueViolation(store, job.source, job.externalId)
               THEN /\ store' = InsertRow(store, job.source, job.externalId)
                    /\ AfterJob(r, runs[r].saved + 1)
               ELSE /\ UNCHANGED store
                    /\ AfterJob(r, runs[r].saved)
  /\ UNCHANGED <<restLog, dcVars, scrape, path, enabled, calls, budget, batch, lastSettle>>

(***************************************************************************)
(* Callers of collectFromSource resuming once the task has settled.        *)
(***************************************************************************)
\* a catch that every caller of the run goes through
CatchesTaskErrorAnyCaller(owner) == TRUE

\* `return await task` sits in the try block of the call that created the
\* task; a coalesced caller returns the stored promise before the try block
CatchesTaskError(owner) == owner

\* the catch of collectFromSource: saveCollectionResult(sourceId, errorResult)
\* with status 'failure' and one error of severity 'critical', then rethrow
\* a caller that rethrows the task's error without writing anything
WritesErrorResultNever(r, owner) == FALSE

\* the catch block is entered by the creating call when the task rejected
WritesErrorResult(r, owner) == runs[r].out = "error" /\ CatchesTaskError(owner)

LogAfterResume(log, r, owner) ==
  IF WritesErrorResult(r, owner)
  THEN SaveCollectionResult(log, runs[r].src, "failure", "critical")
  ELSE log

SettledOutcomeBusy(c) == IF c.owner THEN runs[c.run].out ELSE "error"

\* `return await task` of the owner (its catch rethrows the task's error) and
\* `return this.activeTasks.get(sourceId)` of a coalesced caller
SettledOutcome(c) == runs[c.run].out

\* the task once promise c has resumed: dropped when nothing awaits it any more
\* wrote: the resuming caller went through the catch and wrote the error result
RunsAfterResume(r, waitingCalls, batchWaits, wrote) ==
  IF batchWaits \/ \E c \in waitingCalls : c.run = r
  THEN [runs EXCEPT ![r].logged = @ \/ wrote]
  ELSE [runs EXCEPT ![r] = FreeRun]

CallSettle(c) ==
  /\ path = "orchestrator"
  /\ runs[c.run].pc = "settled"
  /\ calls' = calls \ {c}
  /\ runs' = RunsAfterResume(c.run, calls \ {c}, batch.st = "waiting" /\ batch.run = c.run,
                             WritesErrorResult(c.run, c.owner))
  /\ lastSettle' = [kind |-> SettledOutcome(c),
                    cause |-> IF SettledOutcome(c) = "error" THEN "task_rejected" ELSE "none",
                    src |-> c.src, run |-> c.run, owner |-> c.owner,
                    res |-> runs[c.run].res]
  /\ resultLog' = LogAfterResume(resultLog, c.run, c.owner)
  /\ UNCHANGED <<restLog, dcVars, scrape, path, enabled, activeTasks, budget, batch, store>>

(***************************************************************************)
(* CollectionOrchestrator.collectFromAllSources (lines 125-156).           *)
(***************************************************************************)
\* index of the first enabled source at or after position i, 0 if none
NextEnabled(i) ==
  LET later == {j \in i..Len(registry) : enabled[registry[j]]}
  IN  IF later = {} THEN 0 ELSE CHOOSE j \in later : \A k \in later : j <= k

BatchAbortsOnThrow(threw) == ~threw

\* the catch block inside the loop records the error and the loop goes on
BatchContinues(threw) == TRUE

\* the loop reaches position j: await this.collectFromSource(registry[j])
BatchAdvance(j, results, errors, rs) ==
  IF j = 0
  THEN /\ batch' = [st |-> "done", i |-> 0, run |-> NoRun, results |-> results,
                    errors |-> errors]
       /\ runs' = rs
       /\ UNCHANGED activeTasks
  ELSE LET s == registry[j]
           slot == IF HasActiveTask(s) THEN activeTasks[s]
                   ELSE CHOOSE r \in Slots : rs[r].pc = "free" /\ \A q \in Slots : rs[q].pc = "free" => r <= q
       IN  /\ batch' = [st |-> "waiting", i |-> j, run |-> slot,
                         results |-> results, errors |-> errors]
           /\ runs' = IF HasActiveTask(s) THEN rs
                      ELSE [rs EXCEPT ![slot] = [NewRun(s) EXCEPT !.byBatch = TRUE]]
           /\ activeTasks' = IF HasActiveTask(s) THEN activeTasks
                              ELSE [activeTasks EXCEPT ![s] = slot]

CollectAllStart ==
  /\ path = "orchestrator"
  /\ ~MicrotaskPending
  /\ batch.st = "idle"
  /\ BatchAdvance(NextEnabled(1), <<>>, <<>>, runs)
  /\ UNCHANGED <<auxVars, dcVars, scrape, path, enabled, calls, budget, lastSettle, store>>

\* the awaited collectFromSource settles: push the result or record the error
CollectAllResume ==
  /\ path = "orchestrator"
  /\ batch.st = "waiting"
  /\ runs[batch.run].pc = "settled"
  /\ LET threw == runs[batch.run].out = "error"
         entry == registry[batch.i]
         results == IF threw THEN batch.results ELSE Append(batch.results, entry)
         errors == IF threw THEN Append(batch.errors, entry) ELSE batch.errors
         rs == RunsAfterResume(batch.run, calls, FALSE,
                               WritesErrorResult(batch.run, runs[batch.run].byBatch))
     IN  IF BatchContinues(threw)
         THEN BatchAdvance(NextEnabled(batch.i + 1), results, errors, rs)
         ELSE BatchAdvance(0, results, errors, rs)
  /\ resultLog' = LogAfterResume(resultLog, batch.run, runs[batch.run].byBatch)
  /\ UNCHANGED <<restLog, dcVars, scrape, path, enabled, calls, budget, lastSettle, store>>

NextOrch ==
  \/ ManualCollect
  \/ CronFire
  \/ \E r \in Slots :
       DetectDone(r) \/ CollectThrows(r) \/ CollectReturns(r) \/ SaveJobDone(r)
  \/ \E c \in calls : CallSettle(c)

NextOrchAll ==
  \/ NextOrch
  \/ CollectAllStart
  \/ CollectAllResume

\* manual and cron triggers of collectFromSource
SpecOrch == InitOrch /\ [][NextOrch]_vars

\* collectFromAllSources with concurrent manual and cron triggers
SpecOrchAll == InitOrchAll /\ [][NextOrchAll]_vars

(***************************************************************************)
(* DataCollector.collectFromSource (lines 35-79) and its callers.          *)
(***************************************************************************)
\* the orchestrator is not exercised
OrchUnused ==
  /\ activeTasks = [s \in Sources |-> NoRun]
  /\ runs = [r \in Slots |-> FreeRun]
  /\ calls = {}
  /\ batch = [st |-> "unused", i |-> 0, run |-> NoRun, results |-> <<>>, errors |-> <<>>]
  /\ lastSettle = NoSettle

\* the DataCollector and its scheduler after initialize(); runNow and the
\* cron callbacks are the triggers
InitDC ==
  /\ path = "datacollector"
  /\ enabled \in EnabledConfigs
  /\ priority = [s \in Sources |-> 1]
  /\ upstream \in UpstreamConfigs(MaxRawJobs)
  /\ dcRuns = [r \in DcSlots |-> DcFreeRun]
  /\ dcBatch = NoDcBatch
  /\ lastRun = [s \in Sources |-> NoLastRun]
  /\ budget = MaxDcCalls
  /\ store = {}
  /\ OrchUnused
  /\ scrape = NoScrape
  /\ AuxUnused
  /\ ExtUnused

\* the DataCollector before collectFromAllSources is invoked, over a jobs
\* table that may hold a row of an earlier collection
InitDCAll ==
  /\ path = "datacollector"
  /\ enabled \in EnabledConfigs
  /\ priority \in [Sources -> 1..MaxPriority]
  /\ upstream \in UpstreamConfigs(1)
  /\ dcRuns = [r \in DcSlots |-> DcFreeRun]
  /\ dcBatch = [NoDcBatch EXCEPT !.st = "idle"]
  /\ lastRun = [s \in Sources |-> NoLastRun]
  /\ budget = 0
  /\ store \in {{}, InsertRow({}, registry[1], 1)}
  /\ OrchUnused
  /\ scrape = NoScrape
  /\ AuxUnused
  /\ ExtUnused

\* the continuation of a stage that involves no I/O is queued: it runs before
\* any timer, request or I/O completion is handled
DcMicrotaskPending == \E r \in DcSlots : dcRuns[r].pc \in {"transform", "validate"}

RunsInProgress(rs, s) == {r \in DcSlots : rs[r].src = s /\ rs[r].pc # "free"}

\* the run collectFromSource(s) starts: source.collect() is awaited.  prev is
\* the latest finished run of s when no other run of s is under way.
DcNewRun(rs, s) ==
  [src |-> s, pc |-> "collect", jobs |-> <<>>, toCreate |-> <<>>, toUpdate |-> <<>>,
   i |-> 0, prev |-> IF RunsInProgress(rs, s) = {} THEN lastRun[s] ELSE NoLastRun]

DcFreeSlot(rs) ==
  CHOOSE r \in DcSlots : rs[r].pc = "free" /\ \A q \in DcSlots : rs[q].pc = "free" => r <= q

\* DataCollector.collectFromSource(id) up to its first await; no marker of a
\* run in flight is consulted
DcCollectFromSource(id) ==
  /\ UNCHANGED <<auxVars, dcBatch, lastRun>>
  /\ IF id \notin Sources \/ ~enabled[id]
     THEN \* throw new Error(`Source not found`) / (`Source is disabled`)
          UNCHANGED dcRuns
     ELSE dcRuns' = [dcRuns EXCEPT ![DcFreeSlot(dcRuns)] = DcNewRun(dcRuns, id)]

\* CollectionScheduler.runNow(id): rejects an unknown or disabled source,
\* otherwise awaits dataCollector.collectFromSource(id)
RunNow ==
  /\ path = "datacollector"
  /\ ~DcMicrotaskPending
  /\ budget > 0
  /\ budget' = budget - 1
  /\ \E id \in TriggerIds : DcCollectFromSource(id)
  /\ UNCHANGED <<auxVars, orchVarsIdle, scrape, path, enabled, priority, upstream, store>>

\* the cron callback scheduleSource registered for an enabled source
DcCronFire ==
  /\ path = "datacollector"
  /\ ~DcMicrotaskPending
  /\ budget > 0
  /\ budget' = budget - 1
  /\ \E s \in Sources : enabled[s] /\ DcCollectFromSource(s)
  /\ UNCHANGED <<auxVars, orchVarsIdle, scrape, path, enabled, priority, upstream, store>>

(***************************************************************************)
(* DataCollector.collectFromAllSources (lines 84-103).                     *)
(***************************************************************************)
\* [...this.sources.values()].filter(source => source.isEnabled)
EnabledSources == LET IsEnabled(s) == enabled[s] IN SelectSeq(registry, IsEnabled)

CompareAscending(a, b) == priority[a] - priority[b]

\* the comparator (a, b) => b.priority - a.priority
Compare(a, b) == priority[b] - priority[a]

\* x placed behind every element the comparator does not put after it
RECURSIVE InsertSorted(_, _)
InsertSorted(x, sorted) ==
  IF sorted = <<>> THEN <<x>>
  ELSE IF Compare(x, Head(sorted)) < 0 THEN <<x>> \o sorted
       ELSE <<Head(sorted)>> \o InsertSorted(x, Tail(sorted))

\* Array.prototype.sort with that comparator (a stable sort)
RECURSIVE SortSources(_)
SortSources(q) ==
  IF q = <<>> THEN <<>>
  ELSE InsertSorted(q[Len(q)], SortSources(SubSeq(q, 1, Len(q) - 1)))

\* the for loop reaches position j of the sorted sources with the runs rs
DcBatchAdvance(j, rs) ==
  IF j > Len(dcBatch.order)
  THEN /\ dcBatch' = [dcBatch EXCEPT !.st = "done", !.i = 0, !.run = NoRun]
       /\ dcRuns' = rs
  ELSE LET s == dcBatch.order[j]
       IN  /\ dcBatch' = [dcBatch EXCEPT !.st = "waiting", !.i = j,
                                         !.run = DcFreeSlot(rs),
                                         !.started = Append(@, s)]
           /\ dcRuns' = [rs EXCEPT ![DcFreeSlot(rs)] = DcNewRun(rs, s)]

DcCollectAllStart ==
  /\ path = "datacollector"
  /\ ~DcMicrotaskPending
  /\ dcBatch.st = "idle"
  /\ LET order == SortSources(EnabledSources)
     IN  IF order = <<>>
         THEN /\ dcBatch' = [dcBatch EXCEPT !.st = "done"]
              /\ UNCHANGED dcRuns
         ELSE /\ dcBatch' = [dcBatch EXCEPT !.st = "waiting", !.order = order, !.i = 1,
                                            !.run = DcFreeSlot(dcRuns),
                                            !.started = <<order[1]>>]
              /\ dcRuns' = [dcRuns EXCEPT ![DcFreeSlot(dcRuns)] = DcNewRun(dcRuns, order[1])]
  /\ UNCHANGED <<auxVars, orchVarsIdle, scrape, path, enabled, priority, upstream, budget, lastRun, store>>

(***************************************************************************)
(* The stages of one run.                                                  *)
(***************************************************************************)
StageOrderValidateFirst ==
  [collect |-> "validate", validate |-> "transform", transform |-> "dedupe"]

\* the stage whose await follows the completion of a stage (lines 50-68)
StageOrder ==
  [collect |-> "transform", transform |-> "validate", validate |-> "dedupe"]

\* the keys whose rows the run has inserted when it leaves collectFromSource:
\* createJobs inserts toCreate in order and stops at the first rejection, and
\* updateJobs starts when every create has succeeded
CreatedBy(run, ok) ==
  IF run.pc = "create"
  THEN KeysOf(SubSeq(run.toCreate, 1, IF ok THEN run.i ELSE run.i - 1))
  ELSE IF run.pc = "update" THEN KeysOf(run.toCreate) ELSE {}

\* the keys a finished run created before createJobs rejected
CreatedByFailedCreate(last) ==
  IF last.st = "failed" /\ last.stage = "create" THEN last.created ELSE {}

\* collectFromSource returns or throws: its caller resumes (the cron callback
\* and the loop of collectFromAllSources log a failure, runNow rethrows it)
\* and the loop of collectFromAllSources goes on with the next source
DcFinish(r, ok, fault, out) ==
  /\ lastRun' = [lastRun EXCEPT ![dcRuns[r].src] =
                   [st |-> IF ok THEN "ok" ELSE "failed", fault |-> fault, out |-> out,
                    stage |-> dcRuns[r].pc,
                    created |-> CreatedBy(dcRuns[r], ok),
                    updated |-> KeysOf(dcRuns[r].toUpdate),
                    healed |-> CreatedByFailedCreate(dcRuns[r].prev)]]
  /\ IF dcBatch.st = "waiting" /\ dcBatch.run = r
     THEN DcBatchAdvance(dcBatch.i + 1, [dcRuns EXCEPT ![r] = DcFreeRun])
     ELSE /\ dcRuns' = [dcRuns EXCEPT ![r] = DcFreeRun]
          /\ UNCHANGED dcBatch

\* await source.collect() rejects
DcCollectThrows(r) ==
  /\ path = "datacollector"
  /\ ~DcMicrotaskPending
  /\ dcRuns[r].pc = "collect"
  /\ DcFinish(r, FALSE, TRUE, {})
  /\ UNCHANGED <<auxVars, orchVarsIdle, scrape, path, enabled, priority, upstream, budget, store>>

\* await source.collect() resolves with the jobs the upstream offers
DcCollectReturns(r) ==
  /\ path = "datacollector"
  /\ ~DcMicrotaskPending
  /\ dcRuns[r].pc = "collect"
  /\ dcRuns' = [dcRuns EXCEPT ![r].jobs = upstream[dcRuns[r].src],
                              ![r].pc = StageOrder["collect"]]
  /\ UNCHANGED <<auxVars, orchVarsIdle, scrape, path, enabled, priority, upstream, budget, dcBatch,
                 lastRun, store>>

\* await this.transformer.transform(...)
DcTransform(r) ==
  /\ path = "datacollector"
  /\ dcRuns[r].pc = "transform"
  /\ dcRuns' = [dcRuns EXCEPT ![r].jobs = Transform(@), ![r].pc = StageOrder["transform"]]
  /\ UNCHANGED <<auxVars, orchVarsIdle, scrape, path, enabled, priority, upstream, budget, dcBatch,
                 lastRun, store>>

\* await this.validator.validate(...): the valid jobs go on
DcValidate(r) ==
  /\ path = "datacollector"
  /\ dcRuns[r].pc = "validate"
  /\ dcRuns' = [dcRuns EXCEPT ![r].jobs = ValidJobs(@), ![r].pc = StageOrder["validate"]]
  /\ UNCHANGED <<auxVars, orchVarsIdle, scrape, path, enabled, priority, upstream, budget, dcBatch,
                 lastRun, store>>

\* await this.repository.getExistingJobs() rejects
DcExistingThrows(r) ==
  /\ path = "datacollector"
  /\ ~DcMicrotaskPending
  /\ dcRuns[r].pc = "dedupe"
  /\ DcFinish(r, FALSE, TRUE, {})
  /\ UNCHANGED <<auxVars, orchVarsIdle, scrape, path, enabled, priority, upstream, budget, store>>

\* getExistingJobs() resolves with the rows of the table; deduplicate splits
\* the valid jobs and createJobs starts on the first job to create
DcDedupe(r) ==
  /\ path = "datacollector"
  /\ ~DcMicrotaskPending
  /\ dcRuns[r].pc = "dedupe"
  /\ LET toCreate == JobsToCreate(dcRuns[r].jobs, store)
         toUpdate == JobsToUpdate(dcRuns[r].jobs, store)
     IN  IF toCreate = <<>> /\ toUpdate = <<>>
         THEN DcFinish(r, TRUE, FALSE, {})
         ELSE /\ dcRuns' = [dcRuns EXCEPT ![r].jobs = <<>>,
                                         ![r].toCreate = toCreate,
                                         ![r].toUpdate = toUpdate,
                                         ![r].i = 1,
                                         ![r].pc = IF toCreate # <<>> THEN "create"
                                                   ELSE "update"]
              /\ UNCHANGED <<auxVars, dcBatch, lastRun>>
  /\ UNCHANGED <<auxVars, orchVarsIdle, scrape, path, enabled, priority, upstream, budget, store>>

\* JobRepository.createJob of job i settles: prisma.job.create inserts the row
\* unless the database fails or the unique index rejects the key; a rejection
\* leaves createJobs and collectFromSource at once
DcCreateJob(r) ==
  /\ path = "datacollector"
  /\ ~DcMicrotaskPending
  /\ dcRuns[r].pc = "create"
  /\ LET run == dcRuns[r]
         job == run.toCreate[run.i]
         out == KeysOf(run.toCreate) \cup KeysOf(run.toUpdate)
     IN \E dbOk \in BOOLEAN :
          IF dbOk /\ ~UniqueViolation(store, job.sourceId, job.sourceJobId)
          THEN /\ store' = InsertRow(store, job.sourceId, job.sourceJobId)
               /\ IF run.i < Len(run.toCreate)
                  THEN /\ dcRuns' = [dcRuns EXCEPT ![r].i = @ + 1]
                       /\ UNCHANGED <<auxVars, dcBatch, lastRun>>
                  ELSE IF run.toUpdate # <<>>
                       THEN /\ dcRuns' = [dcRuns EXCEPT ![r].i = 1, ![r].pc = "update"]
                            /\ UNCHANGED <<auxVars, dcBatch, lastRun>>
                       ELSE DcFinish(r, TRUE, FALSE, out)
          ELSE /\ UNCHANGED store
               /\ DcFinish(r, FALSE, ~dbOk, out)
  /\ UNCHANGED <<auxVars, orchVarsIdle, scrape, path, enabled, priority, upstream, budget>>

\* JobRepository.updateJob of job i settles: findFirst, then update of the row
\* found; `Job not found for update` and a database failure leave updateJobs
\* and collectFromSource at once
DcUpdateJob(r) ==
  /\ path = "datacollector"
  /\ ~DcMicrotaskPending
  /\ dcRuns[r].pc = "update"
  /\ LET run == dcRuns[r]
         job == run.toUpdate[run.i]
         out == KeysOf(run.toCreate) \cup KeysOf(run.toUpdate)
     IN \E dbOk \in BOOLEAN :
          IF dbOk /\ FindFirst(store, job.sourceId, job.sourceJobId)
          THEN IF run.i < Len(run.toUpdate)
               THEN /\ dcRuns' = [dcRuns EXCEPT ![r].i = @ + 1]
                    /\ UNCHANGED <<auxVars, dcBatch, lastRun>>
               ELSE DcFinish(r, TRUE, FALSE, out)
          ELSE DcFinish(r, FALSE, ~dbOk, out)
  /\ UNCHANGED <<auxVars, orchVarsIdle, scrape, path, enabled, priority, upstream, budget, store>>

DcPipeline ==
  \E r \in DcSlots :
    \/ DcCollectThrows(r)
    \/ DcCollectReturns(r)
    \/ DcTransform(r)
    \/ DcValidate(r)
    \/ DcExistingThrows(r)
    \/ DcDedupe(r)
    \/ DcCreateJob(r)
    \/ DcUpdateJob(r)

NextDC ==
  \/ RunNow
  \/ DcCronFire
  \/ DcPipeline

NextDCAll ==
  \/ DcCollectAllStart
  \/ DcPipeline

\* runNow and cron triggers of DataCollector.collectFromSource
SpecDC == InitDC /\ [][NextDC]_vars

\* DataCollector.collectFromAllSources
SpecDCAll == InitDCAll /\ [][NextDCAll]_vars

(***************************************************************************)
(* BaseScraper.collect (lines 135-237): the adapter behind                 *)
(* SourceAdapter.collect() on the orchestrator path.  Each detail URL is   *)
(* fetched, extracted and validated before the next one is fetched.        *)
(***************************************************************************)
\* one collect() of a scraper adapter is exercised on its own
InitScrape ==
  /\ path = "scraper"
  /\ enabled = [s \in Sources |-> TRUE]
  /\ budget = 0
  /\ store = {}
  /\ OrchUnused
  /\ DcUnused
  /\ scrape = [NoScrape EXCEPT !.st = "idle"]
  /\ AuxUnused
  /\ ExtUnused

\* errors.length === 0 ? 'success' : (jobsData.length > 0 ? 'partial' : 'failure')
ScrapeStatus(jobs, errors) ==
  IF errors = 0 THEN "success" ELSE IF Len(jobs) > 0 THEN "partial" ELSE "failure"

\* the for loop moves past URL i with the jobs and errors gathered so far
ScrapeNextUrl(jobs, errors, fetched, failed) ==
  IF scrape.i < scrape.n
  THEN scrape' = [scrape EXCEPT !.st = "extract", !.i = @ + 1, !.jobs = jobs,
                                !.errors = errors, !.fetched = fetched,
                                !.validated = fetched, !.failed = failed]
  ELSE scrape' = [scrape EXCEPT !.st = "done", !.jobs = jobs, !.errors = errors,
                                !.fetched = fetched, !.validated = fetched,
                                !.failed = failed,
                                !.status = ScrapeStatus(jobs, errors),
                                !.jobsStored = Len(jobs)]

\* collect() is invoked: await this.collectJobUrls()
ScrapeCollect ==
  /\ path = "scraper"
  /\ scrape.st = "idle"
  /\ scrape' = [scrape EXCEPT !.st = "urls"]
  /\ UNCHANGED <<auxVars, orchVarsIdle, dcVars, path, enabled, budget, store>>

\* collectJobUrls() rejects: the outer catch returns a failure result
ScrapeUrlsThrow ==
  /\ path = "scraper"
  /\ scrape.st = "urls"
  /\ scrape' = [scrape EXCEPT !.st = "done", !.errors = 1, !.status = "failure"]
  /\ UNCHANGED <<auxVars, orchVarsIdle, dcVars, path, enabled, budget, store>>

\* collectJobUrls() resolves with n URLs; the loop awaits extractJobData of the
\* first.  The request of a listing page after the first may have failed on
\* the way: collectJobUrls catches it, logs it, keeps it in a local array and
\* goes on with the next page
ScrapeUrlsReturn ==
  /\ path = "scraper"
  /\ scrape.st = "urls"
  /\ \E n \in 0..MaxUrls, lost \in 0..(MaxListingPages - 1) :
       scrape' = IF n = 0
                 THEN [scrape EXCEPT !.st = "done", !.status = ScrapeStatus(<<>>, 0),
                                     !.lostPages = lost]
                 ELSE [scrape EXCEPT !.st = "extract", !.n = n, !.i = 1,
                                     !.lostPages = lost]
  /\ UNCHANGED <<auxVars, orchVarsIdle, dcVars, path, enabled, budget, store>>

\* extractJobData(url) rejects: job_extraction_error is recorded and the loop
\* goes on with the next URL
ScrapeExtractThrows ==
  /\ path = "scraper"
  /\ scrape.st = "extract"
  /\ ScrapeNextUrl(scrape.jobs, scrape.errors + 1, scrape.fetched,
                   ErrorUrlsAfterCatch(scrape.failed, scrape.i))
  /\ UNCHANGED <<auxVars, orchVarsIdle, dcVars, path, enabled, budget, store>>

\* extractJobData(url) resolves: validateJobData runs on the record at once; a
\* valid record and one with warnings only are kept; the 200 ms delay follows
ScrapeExtractReturns ==
  /\ path = "scraper"
  /\ scrape.st = "extract"
  /\ \E issues \in ValidationClasses :
       scrape' = [scrape EXCEPT !.st = "delay",
                                !.fetched = @ + 1,
                                !.validated = @ + 1,
                                !.seen = Append(@, issues),
                                !.extracted = Append(@, scrape.i),
                                !.jobs = IF KeepsRecord(issues) THEN Append(@, issues) ELSE @]
  /\ UNCHANGED <<auxVars, orchVarsIdle, dcVars, path, enabled, budget, store>>

\* the delay between two requests elapses
ScrapeDelayDone ==
  /\ path = "scraper"
  /\ scrape.st = "delay"
  /\ ScrapeNextUrl(scrape.jobs, scrape.errors, scrape.fetched, scrape.failed)
  /\ UNCHANGED <<auxVars, orchVarsIdle, dcVars, path, enabled, budget, store>>

\* the orchestrator task after collect() has returned jobs: saveJobs(result.jobs)
\* hands every job of the list to saveJob, swallows the failures and returns
\* the number saved, which becomes result.jobsStored; the status stays
ScrapeSaveJobs ==
  /\ path = "scraper"
  /\ scrape.st = "done"
  /\ Len(scrape.jobs) > 0
  /\ \E savedCount \in 0..Len(scrape.jobs) :
       scrape' = [scrape EXCEPT !.st = "saved", !.handed = scrape.jobs,
                                !.jobsStored = savedCount]
  /\ UNCHANGED <<auxVars, orchVarsIdle, dcVars, path, enabled, budget, store>>

NextScrape ==
  \/ ScrapeCollect
  \/ ScrapeUrlsThrow
  \/ ScrapeUrlsReturn
  \/ ScrapeExtractThrows
  \/ ScrapeExtractReturns
  \/ ScrapeDelayDone
  \/ ScrapeSaveJobs

\* the stages of a run on either path: a DataCollector run with its triggers,
\* or the collect() of a scraper adapter
InitStages == InitDC \/ InitScrape

NextStages == NextDC \/ NextScrape

SpecStages == InitStages /\ [][NextStages]_vars

(***************************************************************************)
(* Deduplicator.deduplicate exercised on its own.                          *)
(***************************************************************************)
\* the core of the two collection paths is not exercised
CoreUnused ==
  /\ enabled = [s \in Sources |-> TRUE]
  /\ budget = 0
  /\ store = {}
  /\ OrchUnused
  /\ DcUnused
  /\ scrape = NoScrape

coreVars == <<path, enabled, budget, store, orchVarsIdle, dcVars, scrape>>

InitDedup ==
  /\ path = "deduplicator"
  /\ CoreUnused
  /\ ExtUnused
  /\ fetch = NoFetch
  /\ limiter = NoLimiter
  /\ jobtech = NoJobTech
  /\ \E n \in SeqsUpTo(DedupDto, MaxNewJobs), e \in StoredJobLists :
       dedup = [st |-> "ready", newJobs |-> n, existingJobs |-> e, out |-> NoDedupOut]
  /\ validation = NoValidation

\* deduplicate(newJobs, existingJobs) runs to its return
DeduplicateCall ==
  /\ path = "deduplicator"
  /\ dedup.st = "ready"
  /\ dedup' = [dedup EXCEPT !.st = "done",
                            !.out = Deduplicate(dedup.newJobs, dedup.existingJobs)]
  /\ UNCHANGED <<coreVars, restDedup>>

NextDedup == DeduplicateCall

SpecDedup == InitDedup /\ [][NextDedup]_vars


(***************************************************************************)
(* validateJobData exercised on its own, in its two versions.              *)
(***************************************************************************)
InitValidate ==
  /\ path = "validator"
  /\ CoreUnused
  /\ ExtUnused
  /\ fetch = NoFetch
  /\ limiter = NoLimiter
  /\ jobtech = NoJobTech
  /\ dedup = NoDedup
  /\ \E job \in ValidatedJobs :
       validation = [NoValidation EXCEPT !.st = "ready", !.job = job]

\* validators/jobDataValidator.ts: validateJobData(job) returns or throws
ValidateJobDataCall ==
  /\ path = "validator"
  /\ validation.st = "ready"
  /\ validation' = [validation EXCEPT !.st = "done", !.by = "validators",
                                      !.result = ValidateJobData(validation.job)]
  /\ UNCHANGED <<coreVars, restValidation>>

\* types/validators/jobDataValidator.ts: validateJobData(jobData) returns
ValidateJobDataTypesCall ==
  /\ path = "validator"
  /\ validation.st = "ready"
  /\ validation' = [validation EXCEPT !.st = "done", !.by = "types/validators",
                                      !.result = ValidateJobDataTypes(validation.job)]
  /\ UNCHANGED <<coreVars, restValidation>>

NextValidate == ValidateJobDataCall \/ ValidateJobDataTypesCall

SpecValidate == InitValidate /\ [][NextValidate]_vars


(***************************************************************************)
(* JobTechService.collectJobs (page.tsx 545-682) with handleApiError.      *)
(***************************************************************************)
InitJobTech ==
  /\ path = "jobtech"
  /\ CoreUnused
  /\ ExtUnused
  /\ fetch = NoFetch
  /\ limiter = NoLimiter
  /\ dedup = NoDedup
  /\ validation = NoValidation
  /\ jobtech = [NoJobTech EXCEPT !.st = "idle"]

\* errors.length === 0 ? 'success' : (processedJobs.length > 0 ? 'partial' : 'failure')
JtStatus(j) ==
  IF j.pageErrors = 0 /\ ~j.anyThrow THEN "success"
  ELSE IF j.anyKept THEN "partial" ELSE "failure"

\* the for loop moves past page j.page: the next page is requested, or the
\* hits are processed and the result is returned
JtNextPage(j) ==
  IF j.page + 1 < j.maxPages
  THEN [j EXCEPT !.st = "request", !.page = @ + 1, !.retryCount = 0,
                 !.waits = <<>>, !.codes = <<>>]
  ELSE [j EXCEPT !.st = "done", !.status = JtStatus(j)]

\* collectJobs() is invoked: the initial search is sent
JtCollectJobs ==
  /\ path = "jobtech"
  /\ jobtech.st = "idle"
  /\ jobtech' = [jobtech EXCEPT !.st = "request"]
  /\ UNCHANGED <<coreVars, restJobTech>>

\* an attempt is answered with 2xx: searchJobs resolves.  The initial search
\* fixes the number of pages; a later page is followed by the 500 ms delay
JtResponseOk ==
  /\ path = "jobtech"
  /\ jobtech.st = "request"
  /\ \E hits \in PageHits, total \in Totals :
       LET got == [jobtech EXCEPT !.anyKept = @ \/ hits = "kept",
                                  !.anyThrow = @ \/ hits = "throws"]
           maxPages == IF jobtech.page = 0
                       THEN Min(CeilDiv(total, SearchLimit), PageCap)
                       ELSE jobtech.maxPages
       IN  jobtech' = JtNextPage([got EXCEPT !.maxPages = maxPages])
  /\ UNCHANGED <<coreVars, restJobTech>>

\* an attempt fails: handleApiError schedules a retry while retryCount is below
\* maxRetries; otherwise it rejects, which ends the run with a failure result
\* for the initial search and is recorded as jobtech_page_fetch_error for a
\* later page
JtResponseError ==
  /\ path = "jobtech"
  /\ jobtech.st = "request"
  /\ \E code \in ErrorStatuses :
       LET seen == [jobtech EXCEPT !.codes = Append(@, code)]
       IN  jobtech' =
             IF jobtech.retryCount < MaxRetries
             THEN [seen EXCEPT !.st = "backoff",
                               !.retryCount = @ + 1,
                               !.waits = Append(@, DelayTime(jobtech.retryCount))]
             ELSE IF jobtech.page = 0
                  THEN [seen EXCEPT !.st = "done", !.status = "failure"]
                  ELSE JtNextPage([seen EXCEPT !.pageErrors = @ + 1])
  /\ UNCHANGED <<coreVars, restJobTech>>

\* the backoff delay has elapsed: return this.apiClient(config)
JtBackoffDone ==
  /\ path = "jobtech"
  /\ jobtech.st = "backoff"
  /\ jobtech' = [jobtech EXCEPT !.st = "request"]
  /\ UNCHANGED <<coreVars, restJobTech>>

NextJobTech == JtCollectJobs \/ JtResponseOk \/ JtResponseError \/ JtBackoffDone

SpecJobTech == InitJobTech /\ [][NextJobTech]_vars


(***************************************************************************)
(* Requests passing the rate limiting interceptor of one client.           *)
(***************************************************************************)
\* a client just constructed: rateLimitCounter = 0, rateLimitResetTime = now + 60000
InitRateLimit ==
  /\ path = "ratelimit"
  /\ CoreUnused
  /\ ExtUnused
  /\ fetch = NoFetch
  /\ dedup = NoDedup
  /\ validation = NoValidation
  /\ jobtech = NoJobTech
  /\ \E kind \in {"jobtech", "scraper"} :
       limiter = [NoLimiter EXCEPT !.kind = kind, !.resetTime = WindowTicks,
                                   !.left = MaxRequests]

\* the counter and reset time once the check at the head of the handler is done
RlAfterResetCheck(l) ==
  IF l.now > l.resetTime
  THEN [l EXCEPT !.counter = 0, !.resetTime = l.now + WindowTicks]
  ELSE l

RlReleaseTogether(l) == [l EXCEPT !.sent[l.now] = @ + 1]

\* this.rateLimitCounter++; return config
RlRelease(l) == [l EXCEPT !.counter = @ + 1, !.sent[l.now] = @ + 1]

\* handleRateLimiting is entered by a request: it runs to its return, or to the
\* await of the wait until the reset time
RlRequest ==
  /\ path = "ratelimit"
  /\ limiter.kind = "jobtech"
  /\ limiter.left > 0
  /\ LET l == RlAfterResetCheck([limiter EXCEPT !.left = @ - 1])
     IN  limiter' =
           IF l.counter >= RateLimit /\ l.resetTime - l.now > 0
           THEN [l EXCEPT !.waiting[l.resetTime] = @ + 1]
           ELSE RlRelease(l)
  /\ UNCHANGED <<coreVars, restLimiter>>

\* the wait of a blocked request is over: the counter and the reset time are
\* set anew, then the request is counted and released
RlWake ==
  /\ path = "ratelimit"
  /\ limiter.kind = "jobtech"
  /\ \E t \in 0..limiter.now :
       /\ limiter.waiting[t] > 0
       /\ limiter' = RlRelease([limiter EXCEPT !.waiting[t] = @ - 1,
                                               !.counter = 0,
                                               !.resetTime = limiter.now + WindowTicks])
  /\ UNCHANGED <<coreVars, restLimiter>>

\* BaseScraper.rateLimit is entered by a request: it sleeps 60000 / limit ms
ScRequest ==
  /\ path = "ratelimit"
  /\ limiter.kind = "scraper"
  /\ limiter.left > 0
  /\ limiter' = [limiter EXCEPT !.left = @ - 1,
                                !.waiting[limiter.now + ScraperDelay] = @ + 1]
  /\ UNCHANGED <<coreVars, restLimiter>>

\* the sleep of a request is over: return config
ScWake ==
  /\ path = "ratelimit"
  /\ limiter.kind = "scraper"
  /\ \E t \in 0..limiter.now :
       /\ limiter.waiting[t] > 0
       /\ limiter' = RlReleaseTogether([limiter EXCEPT !.waiting[t] = @ - 1])
  /\ UNCHANGED <<coreVars, restLimiter>>

\* time passes once every timer that is due has fired
RlTick ==
  /\ path = "ratelimit"
  /\ limiter.now < MaxTime
  /\ \A t \in 0..limiter.now : limiter.waiting[t] = 0
  /\ limiter' = [limiter EXCEPT !.now = @ + 1]
  /\ UNCHANGED <<coreVars, restLimiter>>

NextRateLimit == RlRequest \/ RlWake \/ ScRequest \/ ScWake \/ RlTick

SpecRateLimit == InitRateLimit /\ [][NextRateLimit]_vars


(***************************************************************************)
(* JobTechApiSource.fetchJobs (JobTechApiSource.ts 156-204).               *)
(***************************************************************************)
\* a source with or without a configured delay between requests
InitFetch ==
  /\ path = "fetchjobs"
  /\ CoreUnused
  /\ ExtUnused
  /\ dedup = NoDedup
  /\ validation = NoValidation
  /\ jobtech = NoJobTech
  /\ limiter = NoLimiter
  /\ \E delayed \in BOOLEAN : fetch = [NoFetch EXCEPT !.st = "idle", !.delayed = delayed]

\* hasMore = offset < total.value
HasMore(offset, total) == offset < total

\* fetchJobs(params) is invoked: the first page is requested at offset 0
FetchJobs ==
  /\ path = "fetchjobs"
  /\ fetch.st = "idle"
  /\ fetch' = [fetch EXCEPT !.st = "request", !.requests = 1]
  /\ UNCHANGED <<coreVars, restFetch>>

\* the request is answered with h hits and a total: no hit ends the loop;
\* otherwise the hits are added, offset advances by h and the loop goes on
\* while offset is below the reported total
FetchResponse ==
  /\ path = "fetchjobs"
  /\ fetch.st = "request"
  /\ \E h \in HitCounts, reached \in BOOLEAN :
       LET offset == fetch.offset + h
           total == IF reached THEN offset ELSE offset + 1
           seen == [fetch EXCEPT !.lastHits = h, !.lastTotal = total]
       IN  IF h = 0
           THEN fetch' = [seen EXCEPT !.st = "done"]
           ELSE IF HasMore(offset, total)
                THEN /\ fetch.requests < MaxFetchRequests
                     /\ fetch' = [seen EXCEPT
                                    !.offset = offset, !.jobs = @ + h,
                                    !.st = IF fetch.delayed THEN "delay" ELSE "request",
                                    !.requests = IF fetch.delayed THEN @ ELSE @ + 1]
                ELSE fetch' = [seen EXCEPT !.offset = offset, !.jobs = @ + h,
                                           !.st = "done"]
  /\ UNCHANGED <<coreVars, restFetch>>

\* the request fails: the error is logged and rethrown
FetchThrows ==
  /\ path = "fetchjobs"
  /\ fetch.st = "request"
  /\ fetch' = [fetch EXCEPT !.st = "failed"]
  /\ UNCHANGED <<coreVars, restFetch>>

\* await this.delay(this.requestDelay) is over: the next page is requested
FetchDelayDone ==
  /\ path = "fetchjobs"
  /\ fetch.st = "delay"
  /\ fetch' = [fetch EXCEPT !.st = "request", !.requests = @ + 1]
  /\ UNCHANGED <<coreVars, restFetch>>

NextFetch == FetchJobs \/ FetchResponse \/ FetchThrows \/ FetchDelayDone

SpecFetch == InitFetch /\ [][NextFetch]_vars


(***************************************************************************)
(* CollectionOrchestrator.detectSourceChanges(sourceId) over               *)
(* BaseScraper.detectStructuralChanges(), pass after pass on one source.   *)
(***************************************************************************)
InitDetect ==
  /\ path = "changedetector"
  /\ CoreUnused
  /\ AuxUnused
  /\ \E childTag \in ChildTagNames :
       detect = [NoDetect EXCEPT !.st = "idle", !.childTag = childTag]
  /\ score = NoScore
  /\ sched = NoSched
  /\ resultLog = NoLog
  /\ auth = NoAuth

\* the result reaches detectSourceChanges, which notifies or not and returns
DetectReturn(d, result) ==
  [d EXCEPT !.st = "idle", !.result = result, !.notified = Notifies(result)]

\* detectSourceChanges(sourceId) is called: the listing page is requested
DetectSourceChanges ==
  /\ path = "changedetector"
  /\ detect.st = "idle"
  /\ detect.passes < MaxPasses
  /\ detect' = [detect EXCEPT !.st = "fetch", !.passes = @ + 1,
                              !.hadPrior = detect.fingerprint # NoFingerprint,
                              !.prev = detect.snapshot, !.cur = <<>>,
                              !.prevStatus = detect.result.status,
                              !.result = NoChangeResult, !.notified = FALSE]
  /\ UNCHANGED <<coreVars, restDetect>>

\* client.get(listingPath) rejects: the catch returns status 'error'
DetectFetchFails ==
  /\ path = "changedetector"
  /\ detect.st = "fetch"
  /\ detect' = DetectReturn(detect, DetectionFailed)
  /\ UNCHANGED <<coreVars, restDetect>>

\* client.get(listingPath) resolves: first run, equal fingerprints, or the
\* analysis begins with a second request of the page
DetectFetchReturns ==
  /\ path = "changedetector"
  /\ detect.st = "fetch"
  /\ \E html \in Pages :
       LET newFingerprint == CreateFingerprint(html, detect.childTag)
           oldFingerprint == detect.fingerprint
           fetched == [detect EXCEPT !.cur = <<html>>]
       IN  detect' =
             IF oldFingerprint = NoFingerprint
             THEN DetectReturn([fetched EXCEPT
                                  !.fingerprint = FingerprintAfterFirstRun(newFingerprint),
                                  !.snapshot = <<html>>],
                               UnchangedResult)
             ELSE IF oldFingerprint = newFingerprint
             THEN DetectReturn(fetched, UnchangedResult)
             ELSE [fetched EXCEPT !.st = "analyze"]
  /\ UNCHANGED <<coreVars, restDetect>>

\* the fingerprints differ and the analysis is done: fingerprint and snapshot
\* are replaced, status and canAdaptAutomatically follow from the changes
DetectFinish(changes) ==
  detect' = DetectReturn([detect EXCEPT
                            !.fingerprint =
                               FingerprintAfterChange(detect.fingerprint,
                                  CreateFingerprint(detect.cur[1], detect.childTag)),
                            !.snapshot = detect.cur],
                         ChangeResult(ChangeStatus(changes), changes,
                                      CanAdaptAutomatically(changes)))

\* the second request of the page resolves with the same page
DetectAnalyzeReturns ==
  /\ path = "changedetector"
  /\ detect.st = "analyze"
  /\ DetectFinish(AnalyzeStructuralChanges(detect.snapshot, detect.cur[1]))
  /\ UNCHANGED <<coreVars, restDetect>>

\* the second request of the page rejects: the analysis reports its own failure
DetectAnalyzeFails ==
  /\ path = "changedetector"
  /\ detect.st = "analyze"
  /\ DetectFinish(AnalysisFailed)
  /\ UNCHANGED <<coreVars, restDetect>>

NextDetect ==
  \/ DetectSourceChanges
  \/ DetectFetchFails
  \/ DetectFetchReturns
  \/ DetectAnalyzeReturns
  \/ DetectAnalyzeFails

SpecDetect == InitDetect /\ [][NextDetect]_vars


(***************************************************************************)
(* One record on its way through normalizeJobData and validateJobData.     *)
(***************************************************************************)
InitScore ==
  /\ path = "scores"
  /\ CoreUnused
  /\ AuxUnused
  /\ detect = NoDetect
  /\ sched = NoSched
  /\ resultLog = NoLog
  /\ auth = NoAuth
  /\ \E job \in ScoredJobs : score = [NoScore EXCEPT !.st = "record", !.job = job]

\* validateJobData(job): validateBusinessRules calls assessStudentRelevance
AssessStudentRelevance ==
  /\ path = "scores"
  /\ score.st = "record"
  /\ score.relevance = Absent
  /\ score' = [score EXCEPT !.relevance = StudentRelevanceScore(score.job)]
  /\ UNCHANGED <<coreVars, restScore>>

\* normalizeJobData(job): qualityScore = calculateQualityScore(normalizedJob)
NormalizeJobData ==
  /\ path = "scores"
  /\ score.st = "record"
  /\ score.quality = Absent
  /\ score' = [score EXCEPT !.quality = CalculateQualityScore(score.job, score.relevance)]
  /\ UNCHANGED <<coreVars, restScore>>

NextScore ==
  \/ AssessStudentRelevance
  \/ NormalizeJobData

SpecScore == InitScore /\ [][NextScore]_vars


(***************************************************************************)
(* The scheduler of either path after construction, and the calls made on  *)
(* it.                                                                     *)
(***************************************************************************)
InitSched ==
  /\ path = "schedules"
  /\ CoreUnused
  /\ AuxUnused
  /\ detect = NoDetect
  /\ score = NoScore
  /\ resultLog = NoLog
  /\ auth = NoAuth
  /\ \E kind \in {"scheduler", "orchestrator"},
        en \in [SchedSources -> BOOLEAN],
        ex \in [SchedSources -> CronExpressions \cup {""}] :
       /\ kind = "scheduler" => \A s \in SchedSources : ex[s] # ""
       /\ sched = [NoSched EXCEPT !.st = "new", !.kind = kind, !.isEnabled = en,
                                  !.expr = ex]

\* CollectionScheduler.initialize(), once after construction
SchedInitialize ==
  /\ path = "schedules"
  /\ sched.st = "new"
  /\ sched.kind = "scheduler"
  /\ sched' = [ScheduleEnabledFrom([sched EXCEPT !.last = SchedCall("initialize", "A", NoTask)], 1)
                 EXCEPT !.st = "ready"]
  /\ UNCHANGED <<coreVars, restSched>>

\* CollectionOrchestrator.scheduleCollectionTasks(): by initialize() and by
\* the job collection service after it
ScheduleCollectionTasks ==
  /\ path = "schedules"
  /\ sched.kind = "orchestrator"
  /\ sched.ops < MaxSchedOps
  /\ sched' = [ScheduleEnabledFrom(
                 ClearSchedules(StopScheduledFrom(
                   [sched EXCEPT !.last = SchedCall("scheduleCollectionTasks", "A", NoTask)], 1)),
                 1)
                 EXCEPT !.st = "ready", !.ops = @ + 1]
  /\ UNCHANGED <<coreVars, restSched>>

\* CollectionScheduler.stopAll()
StopAll ==
  /\ path = "schedules"
  /\ sched.st = "ready"
  /\ sched.kind = "scheduler"
  /\ sched.ops < MaxSchedOps
  /\ sched' = [ClearSchedules(StopScheduledFrom(
                 [sched EXCEPT !.last = SchedCall("stopAll", "A", NoTask)], 1))
                 EXCEPT !.stopped = TRUE, !.halted = TRUE, !.ops = @ + 1]
  /\ UNCHANGED <<coreVars, restSched>>

\* CollectionScheduler.startAll()
StartAll ==
  /\ path = "schedules"
  /\ sched.st = "ready"
  /\ sched.kind = "scheduler"
  /\ sched.ops < MaxSchedOps
  /\ sched' = [StartAllFrom([sched EXCEPT !.last = SchedCall("startAll", "A", NoTask)], 1)
                 EXCEPT !.stopped = FALSE, !.halted = FALSE, !.ops = @ + 1]
  /\ UNCHANGED <<coreVars, restSched>>

\* CollectionScheduler.updateSchedule(sourceId, scheduleExpression)
UpdateSchedule ==
  /\ path = "schedules"
  /\ sched.st = "ready"
  /\ sched.kind = "scheduler"
  /\ sched.ops < MaxSchedOps
  /\ \E s \in SchedSourceIds, expression \in CronExpressions :
       LET called == [sched EXCEPT !.last = SchedCall("updateSchedule", s, expression)]
           after == IF s \notin SchedSources
                    THEN \* throw new Error(`Source not found`)
                         [called EXCEPT !.last.threw = TRUE]
                    ELSE UpdateScheduleOf(called, s, expression)
       IN  sched' = [after EXCEPT !.halted = IF after.last.threw THEN @ ELSE FALSE,
                                  !.ops = @ + 1]
  /\ UNCHANGED <<coreVars, restSched>>

\* DataCollector.updateSource(sourceId, updates)
UpdateSource ==
  /\ path = "schedules"
  /\ sched.st = "ready"
  /\ sched.kind = "scheduler"
  /\ sched.ops < MaxSchedOps
  /\ \E s \in SchedSources, en \in EnabledUpdates, expression \in ExpressionUpdates :
       /\ en # "keep" \/ expression # "keep"
       /\ sched' = [AssignUpdates(sched, s, en, expression)
                      EXCEPT !.last = SchedCall("updateSource", s,
                                                IF expression = "keep" THEN NoTask
                                                ELSE expression),
                             !.ops = @ + 1]
  /\ UNCHANGED <<coreVars, restSched>>

\* a running task fires.  Scheduler: the callback awaits
\* dataCollector.collectFromSource, which throws for a disabled source and
\* starts a run otherwise.  Orchestrator: collectFromSource joins the run of
\* the source under way or starts one
SchedCronFire ==
  /\ path = "schedules"
  /\ \E t \in sched.live :
       /\ sched.inflight[t.source] < MaxInflight \/ sched.kind = "orchestrator"
       /\ sched' =
            IF sched.kind = "scheduler" /\ ~sched.isEnabled[t.source]
            THEN [sched EXCEPT !.last = [SchedCall("fire", t.source, t.expr)
                                           EXCEPT !.threw = TRUE]]
            ELSE [sched EXCEPT !.last = SchedCall("fire", t.source, t.expr),
                               !.inflight[t.source] = IF @ = 0 THEN 1 ELSE @]
  /\ UNCHANGED <<coreVars, restSched>>

\* a run under way reaches its end
SchedRunEnds ==
  /\ path = "schedules"
  /\ \E s \in SchedSources :
       /\ sched.inflight[s] > 0
       /\ sched' = [sched EXCEPT !.inflight[s] = @ - 1,
                                 !.last = SchedCall("runEnds", s, NoTask)]
  /\ UNCHANGED <<coreVars, restSched>>

NextSched ==
  \/ SchedInitialize
  \/ ScheduleCollectionTasks
  \/ StopAll
  \/ StartAll
  \/ UpdateSchedule
  \/ UpdateSource
  \/ SchedCronFire
  \/ SchedRunEnds

SpecSched == InitSched /\ [][NextSched]_vars

(***************************************************************************)
(* The scheduler as a class: initialize() called again and scheduleSource  *)
(* called from outside, which the application itself does not do.          *)
(***************************************************************************)
\* CollectionScheduler.initialize() on a scheduler that was initialized
SchedInitializeAgain ==
  /\ path = "schedules"
  /\ sched.st = "ready"
  /\ sched.kind = "scheduler"
  /\ sched.ops < MaxSchedOps
  /\ sched' = [ScheduleEnabledFrom([sched EXCEPT !.last = SchedCall("initialize", "A", NoTask)], 1)
                 EXCEPT !.ops = @ + 1]
  /\ UNCHANGED <<coreVars, restSched>>

\* CollectionScheduler.scheduleSource(source) called for a source of the list
ScheduleSource ==
  /\ path = "schedules"
  /\ sched.st = "ready"
  /\ sched.kind = "scheduler"
  /\ sched.ops < MaxSchedOps
  /\ \E s \in SchedSources :
       LET called == [sched EXCEPT !.last = SchedCall("scheduleSource", s, sched.expr[s]),
                                   !.ops = @ + 1]
       IN  sched' = IF CronValidate(sched.expr[s])
                    THEN ScheduleTask(called, s)
                    ELSE [RejectExpression(called, s) EXCEPT !.last.threw = TRUE]
  /\ UNCHANGED <<coreVars, restSched>>

\* a running task that the map no longer holds fires
SchedOrphanFire ==
  /\ path = "schedules"
  /\ \E s \in SchedSources :
       /\ sched.orphans[s] # <<>>
       /\ sched.inflight[s] < MaxInflight
       /\ \E k \in 1..Len(sched.orphans[s]) :
            sched' =
              IF ~sched.isEnabled[s]
              THEN [sched EXCEPT !.last = [SchedCall("fire", s, sched.orphans[s][k])
                                             EXCEPT !.threw = TRUE]]
              ELSE [sched EXCEPT !.last = SchedCall("fire", s, sched.orphans[s][k]),
                                 !.inflight[s] = @ + 1]
  /\ UNCHANGED <<coreVars, restSched>>

NextSchedApi ==
  \/ NextSched
  \/ SchedInitializeAgain
  \/ ScheduleSource
  \/ SchedOrphanFire

SpecSchedApi == InitSched /\ [][NextSchedApi]_vars

(***************************************************************************)
(* JobTechApiSource.authenticate (JobTechApiSource.ts 84-121).             *)
(***************************************************************************)
InitAuth ==
  /\ path = "auth"
  /\ CoreUnused
  /\ AuxUnused
  /\ detect = NoDetect
  /\ score = NoScore
  /\ sched = NoSched
  /\ resultLog = NoLog
  /\ auth = [NoAuth EXCEPT !.st = "ready"]

\* authenticate() is called: a valid cached token is reused, otherwise the
\* token request is sent and the call awaits the response
Authenticate ==
  /\ path = "auth"
  /\ auth.calls < MaxAuthCalls
  /\ LET seen == [decision |-> IF HasValidToken(auth) THEN "reuse" ELSE "request",
                  cached |-> auth.accessToken,
                  left |-> auth.validUntil - auth.now]
     IN  auth' = IF HasValidToken(auth)
                 THEN [auth EXCEPT !.calls = @ + 1, !.last = seen]
                 ELSE [auth EXCEPT !.calls = @ + 1, !.last = seen,
                                   !.pending = @ + 1, !.requests = @ + 1]
  /\ UNCHANGED <<coreVars, restAuth>>

\* the token endpoint answers: the token and its expiry are cached
TokenResponse ==
  /\ path = "auth"
  /\ auth.pending > 0
  /\ \E expiresIn \in ExpiresIn :
       auth' = [auth EXCEPT !.pending = @ - 1,
                            !.accessToken = TRUE,
                            !.expiresAt = ExpiresAt(auth.now, expiresIn),
                            !.validUntil = auth.now + (expiresIn * 1000)]
  /\ UNCHANGED <<coreVars, restAuth>>

\* the token request fails: authenticate throws, the cache is as it was
TokenRequestFails ==
  /\ path = "auth"
  /\ auth.pending > 0
  /\ auth' = [auth EXCEPT !.pending = @ - 1]
  /\ UNCHANGED <<coreVars, restAuth>>

\* time passes
AuthClock ==
  /\ path = "auth"
  /\ auth.now + ClockStep <= MaxClock
  /\ auth' = [auth EXCEPT !.now = @ + ClockStep]
  /\ UNCHANGED <<coreVars, restAuth>>

NextAuth == Authenticate \/ TokenResponse \/ TokenRequestFails \/ AuthClock

SpecAuth == InitAuth /\ [][NextAuth]_vars



(***************************************************************************)
(* C1: at most one execution of a source's adapter collect() is in         *)
(* progress at any time, and the pending collectFromSource calls of one    *)
(* source all await the same task, so calls made before the first settles  *)
(* cause one invocation of collect().                                      *)
(***************************************************************************)
Collecting(s) == {r \in Slots : runs[r].src = s /\ runs[r].pc = "collect"}

ExclusiveCollect ==
  /\ \A s \in Sources : Cardinality(Collecting(s)) <= 1
  /\ \A c1, c2 \in calls : c1.src = c2.src => c1.run = c2.run

\* two calls of one source are pending while its single collect() runs
ExclusiveCollectWitness ==
  \E c1, c2 \in calls :
    /\ c1.id # c2.id
    /\ c1.src = c2.src
    /\ c1.run = c2.run
    /\ runs[c1.run].pc = "collect"

(***************************************************************************)
(* C3: a collectFromSource call made while a run of the source is in       *)
(* flight settles only once that run has settled, with the run's outcome   *)
(* and result, and making the call starts no run.                          *)
(***************************************************************************)
CoalescedOutcome ==
  [][/\ \A c \in calls : c \notin calls' =>
          /\ runs[c.run].pc = "settled"
          /\ lastSettle'.kind = runs[c.run].out
          /\ lastSettle'.res = runs[c.run].res
     /\ \A c \in calls' : (c \notin calls /\ ~c.owner) =>
          /\ runs' = runs
          /\ runs[c.run].pc \in {"detect", "collect", "save"}
          /\ runs[c.run].src = c.src]_vars

\* a coalesced call has settled with the outcome of the run it joined
CoalescedOutcomeWitness ==
  /\ lastSettle.kind \in {"result", "error"}
  /\ lastSettle.cause # "source_not_found"
  /\ ~lastSettle.owner

(***************************************************************************)
(* C4: once a run has settled, with a result or with an exception, the     *)
(* in-flight marker of its source is absent: the marker only ever names a  *)
(* task of that source that has not settled, so the next collectFromSource *)
(* starts a fresh run.                                                     *)
(***************************************************************************)
MarkerReleased ==
  /\ \A s \in Sources : activeTasks[s] # NoRun =>
        /\ runs[activeTasks[s]].src = s
        /\ runs[activeTasks[s]].pc \in {"detect", "collect", "save"}
  /\ \A r \in Slots : runs[r].pc = "settled" => activeTasks[runs[r].src] # r

\* after a run of a source was rejected, a fresh run of that source started
MarkerReleasedWitness ==
  /\ lastSettle.kind = "error"
  /\ lastSettle.cause = "task_rejected"
  /\ \E r \in Slots : /\ runs[r].src = lastSettle.src
                      /\ runs[r].pc = "detect"
                      /\ activeTasks[lastSettle.src] = r

Position(s) == CHOOSE j \in 1..Len(registry) : registry[j] = s

Occurrences(q, s) == Cardinality({j \in 1..Len(q) : q[j] = s})

BatchComplete ==
  batch.st = "done" =>
    /\ \A s \in Sources :
         Occurrences(batch.results, s) + Occurrences(batch.errors, s)
           = (IF enabled[s] THEN 1 ELSE 0)
    /\ \A j, k \in 1..Len(batch.results) :
         j < k => Position(batch.results[j]) < Position(batch.results[k])

BatchStep ==
  (batch.st = "waiting" /\ batch' # batch) =>
    /\ runs[batch.run].pc = "settled"
    /\ IF runs[batch.run].out = "error"
       THEN /\ batch'.errors = Append(batch.errors, registry[batch.i])
            /\ batch'.results = batch.results
       ELSE /\ batch'.results = Append(batch.results, registry[batch.i])
            /\ batch'.errors = batch.errors
    /\ IF NextEnabled(batch.i + 1) = 0
       THEN batch'.st = "done"
       ELSE /\ batch'.st = "waiting"
            /\ batch'.i = NextEnabled(batch.i + 1)
            /\ runs'[batch'.run].src = registry[batch'.i]
            /\ runs'[batch'.run].pc \in {"detect", "collect", "save"}

BatchIsolation == []BatchComplete /\ [][BatchStep]_vars

\* the batch returned the results of the first and the third source while
\* the run of the second one threw
BatchIsolationWitness ==
  /\ batch.st = "done"
  /\ batch.results = <<registry[1], registry[3]>>
  /\ batch.errors = <<registry[2]>>

(***************************************************************************)
(* C2: on the scheduler path a trigger of a source that arrives while a    *)
(* run of the source is under way starts no new run, so that               *)
(* DataCollector.collectFromSource never has two pipeline runs of one      *)
(* source in progress at the same time.                                    *)
(***************************************************************************)
SchedulerExclusiveRun ==
  \A s \in Sources : Cardinality(RunsInProgress(dcRuns, s)) <= 1

(***************************************************************************)
(* C7: collectFromAllSources starts the runs of the enabled sources in     *)
(* order of descending priority: the priorities of the runs started are    *)
(* non-increasing, a run starts only once every enabled source of strictly *)
(* higher priority has had its run started, and when the batch is done     *)
(* every enabled source has been started once and no disabled one.         *)
(***************************************************************************)
PriorityOrder ==
  LET started == dcBatch.started
  IN  /\ \A j, k \in 1..Len(started) :
           j < k => priority[started[j]] >= priority[started[k]]
      /\ \A k \in 1..Len(started) : \A p \in Sources :
           (enabled[p] /\ priority[p] > priority[started[k]])
             => \E j \in 1..(k - 1) : started[j] = p
      /\ dcBatch.st = "done" =>
           \A s \in Sources :
             Occurrences(started, s) = (IF enabled[s] THEN 1 ELSE 0)

\* the batch is done and ran the last registered source first, ahead of two
\* sources of lower priority
PriorityOrderWitness ==
  /\ dcBatch.st = "done"
  /\ dcBatch.started = <<registry[3], registry[1], registry[2]>>
  /\ priority[registry[3]] > priority[registry[1]]

(***************************************************************************)
(* C9: the jobs table never holds two rows with the same (source,          *)
(* externalId), whatever runs have taken place: runs whose upstream list   *)
(* holds a key twice and runs of one source that overlap included.         *)
(***************************************************************************)
StoreUnique ==
  \A r1, r2 \in store :
    (r1.source = r2.source /\ r1.externalId = r2.externalId) => r1 = r2

\* a run of a source was turned down by the table (no database failure) while
\* another run of that source, which has created rows, is still under way
StoreUniqueWitness ==
  \E s \in Sources : \E r \in DcSlots :
    /\ lastRun[s].st = "failed"
    /\ ~lastRun[s].fault
    /\ dcRuns[r].src = s
    /\ dcRuns[r].pc = "create"
    /\ dcRuns[r].i > 1
    /\ \E k \in 1..(dcRuns[r].i - 1) :
         Cardinality(RowsOf(store, s, dcRuns[r].toCreate[k].sourceJobId)) = 1

(***************************************************************************)
(* C10: a run of a source that follows a finished run of the same source,  *)
(* the upstream being unchanged and neither a database nor a fetch failure *)
(* having hit the first run, has an empty create set after deduplication,  *)
(* and the keys of its update set are the keys the first run put out.      *)
(***************************************************************************)
IdempotentSecondRun ==
  \A r \in DcSlots :
    (/\ dcRuns[r].pc \in {"create", "update"}
     /\ dcRuns[r].prev.st # "none"
     /\ ~dcRuns[r].prev.fault)
    => /\ dcRuns[r].toCreate = <<>>
       /\ KeysOf(dcRuns[r].toUpdate) = dcRuns[r].prev.out

(***************************************************************************)
(* C8: within one run the stages execute strictly in the order fetch,      *)
(* normalize, validate, dedupe, persist on every path: what a stage works  *)
(* on is the complete output of the stage before it, every record handed   *)
(* to the repository is a normalized upstream record that passed           *)
(* validation, and no record is validated before fetching has finished.    *)
(***************************************************************************)
DcStagesInv ==
  \A r \in DcSlots :
    LET run == dcRuns[r]
    IN  /\ run.pc = "transform" => run.jobs = upstream[run.src]
        /\ run.pc = "validate" => run.jobs = Transform(upstream[run.src])
        /\ run.pc = "dedupe" => run.jobs = ValidJobs(Transform(upstream[run.src]))
        /\ run.pc \in {"create", "update"} =>
             /\ Len(run.toCreate) + Len(run.toUpdate)
                  = Len(ValidJobs(Transform(upstream[run.src])))
             /\ \A job \in Range(run.toCreate) \cup Range(run.toUpdate) :
                  /\ IsValidJob(job)
                  /\ \E k \in 1..Len(upstream[run.src]) :
                       job = TransformJob(upstream[run.src][k])

\* the scraper adapter validates nothing while detail pages are still to be fetched
ScrapeStageBarrier ==
  scrape.validated > 0 =>
    \/ scrape.st \in {"done", "saved"}
    \/ scrape.st = "delay" /\ scrape.i = scrape.n

StageSuccession ==
  {<<"free", "collect">>, <<"collect", "transform">>, <<"transform", "validate">>,
   <<"validate", "dedupe">>, <<"dedupe", "create">>, <<"dedupe", "update">>,
   <<"create", "update">>}
  \cup ({"collect", "dedupe", "create", "update"} \X {"free", "collect"})

DcStageStep ==
  \A r \in DcSlots :
    dcRuns'[r].pc # dcRuns[r].pc => <<dcRuns[r].pc, dcRuns'[r].pc>> \in StageSuccession

ScrapePerRecord ==
  /\ scrape.validated = scrape.fetched
  /\ Len(scrape.jobs) <= scrape.validated
  /\ \A k \in 1..Len(scrape.jobs) : scrape.jobs[k] # "errors"

CountIn(job, q) == Cardinality({i \in 1..Len(q) : q[i] = job})

SharesKey(job, e) == e.sourceId = job.sourceId /\ e.sourceJobId = job.sourceJobId

DedupExactness ==
  dedup.st = "done" =>
    \A k \in 1..Len(dedup.newJobs) :
      LET job == dedup.newJobs[k]
      IN  (\E e \in Range(dedup.existingJobs) : SharesKey(job, e)) =>
            /\ CountIn(job, dedup.out.jobsToCreate) = 0
            /\ CountIn(job, dedup.out.jobsToUpdate) = CountIn(job, dedup.newJobs)

\* a record went to update whose stored record has another title and company,
\* while a stored record of another source matches its title and company
DedupExactnessWitness ==
  /\ dedup.st = "done"
  /\ \E k \in 1..Len(dedup.newJobs) :
       LET job == dedup.newJobs[k]
       IN  /\ \E e \in Range(dedup.existingJobs) :
                 SharesKey(job, e) /\ e.title # job.title /\ e.company # job.company
           /\ OtherSourceMatches(job, dedup.existingJobs) # <<>>
           /\ CountIn(job, dedup.out.jobsToUpdate) = 1
           /\ CountIn(job, dedup.out.jobsToCreate) = 0

(***************************************************************************)
(* C12: when a batch of two records with one title and company and         *)
(* different sources is deduplicated and no stored record has the key of   *)
(* either, both are placed in the create set and exactly one cross-source  *)
(* duplicate candidate is logged.                                          *)
(***************************************************************************)
CrossSourcePair ==
  /\ Len(dedup.newJobs) = 2
  /\ dedup.newJobs[1].title = dedup.newJobs[2].title
  /\ dedup.newJobs[1].company = dedup.newJobs[2].company
  /\ dedup.newJobs[1].sourceId # dedup.newJobs[2].sourceId
  /\ \A k \in 1..2 : \A e \in Range(dedup.existingJobs) :
       ~SharesKey(dedup.newJobs[k], e)

CrossSourcePairLogged ==
  (dedup.st = "done" /\ CrossSourcePair) =>
    /\ dedup.out.jobsToCreate = dedup.newJobs
    /\ dedup.out.jobsToUpdate = <<>>
    /\ Len(dedup.out.logged) = 1


(***************************************************************************)
(* C13: whenever validateJobData returns, in either version, its valid     *)
(* flag is false exactly when one of the issues it reports has severity    *)
(* error; a record whose issues are all of severity warning or info is     *)
(* reported valid.                                                         *)
(***************************************************************************)
SeveritiesOf(issues) == {issues[k].severity : k \in 1..Len(issues)}

WithoutErrorIssue(seen) == SelectSeq(seen, LAMBDA c : c # "errors")

DcHanded(run) == run.toCreate \o run.toUpdate

HandedIffNoErrorIssue ==
  /\ scrape.jobs = WithoutErrorIssue(scrape.seen)
  /\ scrape.st = "saved" => scrape.handed = WithoutErrorIssue(scrape.seen)
  /\ \A r \in DcSlots :
       dcRuns[r].pc \in {"create", "update"} =>
         \A job \in Range(Transform(upstream[dcRuns[r].src])) :
           CountIn(job, DcHanded(dcRuns[r]))
             = IF IsValidJob(job)
               THEN CountIn(job, Transform(upstream[dcRuns[r].src]))
               ELSE 0

\* saveJobs received a record with warnings only and not the record with an
\* error issue that was extracted in the same run
HandedIffNoErrorIssueWitness ==
  /\ scrape.st = "saved"
  /\ "warnings" \in Range(scrape.handed)
  /\ "errors" \in Range(scrape.seen)
  /\ "errors" \notin Range(scrape.handed)

(***************************************************************************)
(* C15: a record that fails validation with an error-severity issue is not *)
(* counted in jobsStored and is still an element of the jobs list of the   *)
(* run's result.                                                           *)
(***************************************************************************)
ErrorRecordsInResultJobs ==
  scrape.st \in {"done", "saved"} =>
    /\ scrape.jobsStored <= Len(WithoutErrorIssue(scrape.seen))
    /\ CountIn("errors", scrape.jobs) = CountIn("errors", scrape.seen)


(***************************************************************************)
(* C16: when the adapter of a run returned at least one job with status    *)
(* success and persistence failed so that no record was stored, the result *)
(* the run settles with has status partial and holds a save_error in its   *)
(* error list.                                                             *)
(***************************************************************************)
SaveFailureDowngrades ==
  \A r \in Slots :
    (/\ runs[r].pc = "settled"
     /\ runs[r].out = "result"
     /\ Len(runs[r].res.jobs) >= 1
     /\ "job_extraction_error" \notin Range(runs[r].res.errors)
     /\ runs[r].res.jobsStored = 0)
    => /\ runs[r].res.status = "partial"
       /\ "save_error" \in Range(runs[r].res.errors)


(***************************************************************************)
(* C17: a failed request, one answered with HTTP 429 in particular, is     *)
(* retried at most maxRetries times, the wait before retry number k + 1    *)
(* being initialDelay * backoffFactor^k; with maxRetries 3, initialDelay   *)
(* 1000 and backoffFactor 2 a request answered with 429 three times and    *)
(* then served has waited 1000, 2000 and 4000 ms, and a run in which       *)
(* nothing else failed ends with status success.                           *)
(***************************************************************************)
ServedAfterThree429 ==
  /\ jobtech.st = "done"
  /\ jobtech.codes = <<429, 429, 429>>
  /\ jobtech.pageErrors = 0
  /\ ~jobtech.anyThrow
  /\ jobtech.maxPages <= 1
  /\ jobtech.status # "failure"

RetryBackoff ==
  /\ jobtech.retryCount <= MaxRetries
  /\ Len(jobtech.codes) <= MaxRetries + 1
  /\ Len(jobtech.waits) = jobtech.retryCount
  /\ \A k \in 1..Len(jobtech.waits) :
       jobtech.waits[k] = InitialDelay * Pow(BackoffFactor, k - 1)
  /\ jobtech.st \in {"request", "backoff"} => Len(jobtech.codes) = jobtech.retryCount
  /\ ServedAfterThree429 =>
       /\ jobtech.waits = <<1000, 2000, 4000>>
       /\ jobtech.status = "success"

\* the only request of a run was answered 429, 429, 429 and then served
RetryBackoffWitness ==
  /\ ServedAfterThree429
  /\ jobtech.waits = <<1000, 2000, 4000>>
  /\ jobtech.status = "success"


(***************************************************************************)
(* C18: when the request of a page has failed for good while other pages   *)
(* yielded records, the run goes on, keeps those records, holds an error   *)
(* entry for every failed page in its result and ends with status partial. *)
(***************************************************************************)
PageFailureRecorded ==
  (/\ scrape.st \in {"done", "saved"}
   /\ scrape.lostPages > 0
   /\ Len(scrape.jobs) > 0)
  => /\ scrape.errors >= scrape.lostPages
     /\ scrape.status = "partial"


(***************************************************************************)
(* C19: whatever the interleaving of the requests issued through one       *)
(* client, the requests released to the network within any window of one   *)
(* minute number at most rateLimitPerMinute.                               *)
(***************************************************************************)
RECURSIVE SentBetween(_, _)
SentBetween(from, to) ==
  IF from > to THEN 0 ELSE limiter.sent[from] + SentBetween(from + 1, to)

RateLimitRespected ==
  \A t \in 0..MaxTime : SentBetween(t, t + WindowTicks - 1) <= RateLimit

(***************************************************************************)
(* C20: a fetchJobs call goes on to a further page only after a page with  *)
(* hits that left offset below the reported total, and whatever the source *)
(* answers it makes no more page requests than the safety cap (the 50      *)
(* pages JobTechService.collectJobs allows).                               *)
(***************************************************************************)
NextPageOnlyIfMore ==
  (fetch.st = "delay" \/ (fetch.st = "request" /\ fetch.requests > 1)) =>
    /\ fetch.lastHits > 0
    /\ fetch.offset < fetch.lastTotal

PaginationCapped ==
  /\ NextPageOnlyIfMore
  /\ fetch.requests <= PageCap


(***************************************************************************)
(* C21: in BaseScraper.collect a failure on one detail URL is caught, adds *)
(* exactly one error entry carrying that URL, and does not abort the       *)
(* batch: when collect() returns after the loop, every URL of the list has *)
(* been processed exactly once, either as an error entry with its URL or   *)
(* as an extracted record, and the records of the other URLs that carry no *)
(* error issue are the jobs returned.                                      *)
(***************************************************************************)
UrlCount(q, url) == Cardinality({k \in 1..Len(q) : q[k] = url})

ExtractionFailureIsolated ==
  (path = "scraper" /\ scrape.st = "done" /\ scrape.n > 0) =>
    /\ scrape.i = scrape.n
    /\ scrape.errors = Len(scrape.failed)
    /\ \A url \in 1..scrape.n :
         UrlCount(scrape.failed, url) + UrlCount(scrape.extracted, url) = 1
    /\ \A k \in 1..Len(scrape.failed) : scrape.failed[k] \in 1..scrape.n
    /\ Len(scrape.seen) = Len(scrape.extracted)
    /\ scrape.jobs = WithoutErrorIssue(scrape.seen)

\* the first URL failed, the one after it was extracted and returned
ExtractionFailureIsolatedWitness ==
  /\ path = "scraper"
  /\ scrape.st = "done"
  /\ scrape.n = MaxUrls
  /\ scrape.failed = <<1>>
  /\ Len(scrape.extracted) = MaxUrls - 1
  /\ scrape.extracted[1] = 2
  /\ Len(scrape.jobs) = MaxUrls - 1
  /\ scrape.status = "partial"


(***************************************************************************)
(* C22: when the listing page loses every detail link between two passes   *)
(* while listing elements are still present, the second pass reports       *)
(* major_changes with canAdaptAutomatically false and the orchestrator     *)
(* notifies.                                                               *)
(***************************************************************************)
\* the last pass found a stored page with detail links and fetched a page with
\* listing elements and no detail link
DetailLinksDropped ==
  /\ path = "changedetector"
  /\ detect.st = "idle"
  /\ detect.hadPrior
  /\ detect.prev # <<>>
  /\ detect.cur # <<>>
  /\ LinkCount(detect.prev[1]) > 0
  /\ Len(Listings(detect.cur[1])) > 0
  /\ LinkCount(detect.cur[1]) = 0

DroppedLinksReported ==
  DetailLinksDropped =>
    /\ detect.result.status = "major_changes"
    /\ ~detect.result.canAdaptAutomatically
    /\ detect.notified

(***************************************************************************)
(* C23: createFingerprint is sensitive: two pages that differ in the class *)
(* or the child list of an element the configured selectors depend on have *)
(* different fingerprints.                                                 *)
(***************************************************************************)
\* what the selectors .job, a and span can tell about a page
SelectorView(page) ==
  [k \in 1..Len(page) |-> [class |-> page[k].class, kids |-> page[k].kids]]

FingerprintSensitive ==
  (path = "changedetector" /\ detect.prev # <<>> /\ detect.cur # <<>>) =>
    (SelectorView(detect.prev[1]) # SelectorView(detect.cur[1]) =>
       CreateFingerprint(detect.prev[1], detect.childTag)
         # CreateFingerprint(detect.cur[1], detect.childTag))

(***************************************************************************)
(* C24: a pass whose fingerprint differs from the stored one reports       *)
(* major_changes exactly when some reported change has impact high and     *)
(* minor_changes otherwise, and canAdaptAutomatically is false exactly     *)
(* when some reported change has impact high.                              *)
(***************************************************************************)
FingerprintDiffers ==
  /\ path = "changedetector"
  /\ detect.st = "idle"
  /\ detect.hadPrior
  /\ detect.cur # <<>>
  /\ detect.prev # <<>>
  /\ CreateFingerprint(detect.cur[1], detect.childTag)
       # CreateFingerprint(detect.prev[1], detect.childTag)

HasHighImpact(changes) == \E k \in 1..Len(changes) : changes[k].impact = "high"

StatusFollowsImpact ==
  FingerprintDiffers =>
    /\ detect.result.status \in {"minor_changes", "major_changes"}
    /\ detect.result.status = "major_changes" <=> HasHighImpact(detect.result.changes)
    /\ detect.result.canAdaptAutomatically <=> ~HasHighImpact(detect.result.changes)
    /\ \A k \in 1..Len(detect.result.changes) :
         detect.result.changes[k].impact \in {"low", "medium", "high"}

\* a pass that reported a low change first and a high one after it
StatusFollowsImpactWitness ==
  /\ FingerprintDiffers
  /\ Len(detect.result.changes) > 1
  /\ detect.result.changes[1].impact = "low"
  /\ HasHighImpact(detect.result.changes)
  /\ detect.result.status = "major_changes"
  /\ ~detect.result.canAdaptAutomatically

(***************************************************************************)
(* C25: a pass that finds no stored fingerprint stores the fingerprint and *)
(* the snapshot of the page it fetched and reports unchanged with          *)
(* canAdaptAutomatically true and no changes; a later pass that starts     *)
(* with that snapshot compares against the fingerprint of that page.       *)
(***************************************************************************)
FirstRunFetched ==
  /\ path = "changedetector"
  /\ detect.st = "idle"
  /\ detect.passes > 0
  /\ ~detect.hadPrior
  /\ detect.cur # <<>>

QualityScoreBounded ==
  score.quality # Absent => score.quality >= 0 /\ score.quality <= 100

ScoreBounds ==
  /\ QualityScoreBounded
  /\ score.relevance # Absent => score.relevance >= 0 /\ score.relevance <= 100


(***************************************************************************)
(* C27: an invalid cron expression is refused at the call that registers   *)
(* or updates the schedule: no task, running or stored, ever has an        *)
(* invalid expression; updateSchedule with one throws; startAll throws     *)
(* when it meets one; initialize and scheduleCollectionTasks refuse it for *)
(* the source concerned during the call and schedule the other sources.    *)
(***************************************************************************)
ExpressionOf(s) == CronOf(sched.kind, sched.expr[s])

StopAllStep ==
  sched'.last.op = "stopAll" /\ sched'.ops = sched.ops + 1

CronFireStep ==
  sched'.last.op = "fire" /\ sched' # sched

RescheduledAfterUpdate ==
  (path = "schedules" /\ sched.last.op \in {"updateSource", "updateSchedule"}
     /\ ~sched.last.threw) =>
    LET s == sched.last.source
    IN  /\ sched.isEnabled[s] =>
             /\ sched.schedules[s] = sched.expr[s]
             /\ \A t \in sched.live : t.source = s => t.expr = sched.expr[s]
        /\ ~sched.isEnabled[s] => \A t \in sched.live : t.source # s


(***************************************************************************)
(* C30: every run of collectFromSource that passes the in-flight check     *)
(* writes exactly one entry to the result log: the task writes it when the *)
(* run ends normally, the call that created the task writes it, with       *)
(* status failure and a critical error, when the task rejects; a coalesced *)
(* caller of the run writes nothing.                                       *)
(***************************************************************************)
\* the calls that created run r and still await it
OwnersOf(r) == {c \in calls : c.run = r /\ c.owner}

\* collectFromAllSources created run r and still awaits it
BatchOwns(r) == batch.st = "waiting" /\ batch.run = r /\ runs[r].byBatch

\* a run that has not settled is awaited by exactly one call that created it
RunHasOneOwner ==
  \A r \in Slots :
    runs[r].pc \notin {"free", "settled"}
      => Cardinality(OwnersOf(r)) + (IF BatchOwns(r) THEN 1 ELSE 0) = 1

\* the runs that end normally in this step
EndingNormally ==
  {r \in Slots : runs[r].pc \notin {"free", "settled"}
                 /\ runs'[r].pc = "settled" /\ runs'[r].out = "result"}

\* the creating calls that resume from a rejected task in this step
OwnersResuming ==
  {c \in calls \ calls' : c.owner /\ runs[c.run].pc = "settled" /\ runs[c.run].out = "error"}

BatchOwnerResuming ==
  /\ batch.st = "waiting"
  /\ batch' # batch
  /\ runs[batch.run].byBatch
  /\ runs[batch.run].pc = "settled"
  /\ runs[batch.run].out = "error"

ResultLogStep ==
  LET writes == Cardinality(EndingNormally) + Cardinality(OwnersResuming)
                + (IF BatchOwnerResuming THEN 1 ELSE 0)
  IN  /\ writes <= 1
      /\ resultLog'.n = resultLog.n + writes
      /\ \A r \in EndingNormally :
           /\ resultLog'.last.src = runs[r].src
           /\ resultLog'.last.status = runs'[r].res.status
           /\ resultLog'.last.severity # "critical"
      /\ (OwnersResuming # {} \/ BatchOwnerResuming)
           => /\ resultLog'.last.status = "failure"
              /\ resultLog'.last.severity = "critical"

MarkerCleared(r) == runs[r].pc = "settled" /\ activeTasks[runs[r].src] # r

LoggedByOwnerWitness ==
  \E r \in Slots : /\ runs[r].pc = "settled"
                   /\ runs[r].out = "error"
                   /\ runs[r].logged
                   /\ \E c \in calls : c.run = r /\ ~c.owner


(***************************************************************************)
(* C32: only transient failures are retried: an attempt answered with a    *)
(* non-transient status such as 404 is the last attempt of its request, no *)
(* backoff delay and no retry follow it.                                   *)
(***************************************************************************)
NonTransientNotRetried ==
  \A k \in 1..Len(jobtech.codes) :
    jobtech.codes[k] \in NonTransientStatuses => Len(jobtech.waits) < k


(***************************************************************************)
(* C33: authenticate requests a new token if and only if no token is       *)
(* cached or the cached token has less than 60 seconds of validity left;   *)
(* otherwise it reuses the cached token and sends no request.              *)
(***************************************************************************)
RefreshIffUnderMargin ==
  auth.last.decision # "none" =>
    (auth.last.decision = "request"
       <=> (~auth.last.cached \/ auth.last.left < SafetyMargin))

\* C33 with the boundary the code has: a token with exactly 60 seconds left
\* is not reused either
RefreshIffWithinMargin ==
  /\ auth.last.decision # "none" =>
       (auth.last.decision = "request"
          <=> (~auth.last.cached \/ auth.last.left <= SafetyMargin))
  /\ auth.last.decision \in {"none", "reuse", "request"}
  /\ auth.requests <= auth.calls

\* a call that found a token with 60 seconds left and requested a new one,
\* after an earlier call had reused that token
RefreshIffWithinMarginWitness ==
  /\ auth.last.decision = "request"
  /\ auth.last.cached
  /\ auth.last.left = SafetyMargin
  /\ auth.calls >= 3
  /\ auth.requests = 2


(***************************************************************************)
(* C34: the pre-flight change detection is non-fatal: whatever             *)
(* detectStructuralChanges returns, and when it throws, the run goes on to *)
(* the adapter's collect().                                                *)
(***************************************************************************)
\* the step that ends the detection of run r starts its collect()
DetectionStep ==
  \A r \in Slots :
    (runs[r].pc = "detect" /\ runs'[r] # runs[r])
      => /\ runs'[r].pc = "collect"
         /\ runs'[r].detected \in DetectOutcomes
         /\ runs'[r].src = runs[r].src
         /\ activeTasks'[runs[r].src] = r

\* collect() is never under way without a detection before it
CollectFollowsDetection ==
  \A r \in Slots : runs[r].pc = "collect" <=> runs[r].detected # "none"

DetectionNonFatal == []CollectFollowsDetection /\ [][DetectionStep]_vars

\* collect() under way for a source whose detection threw, and for one whose
\* detection reported major changes
DetectionNonFatalWitness ==
  /\ \E r \in Slots : runs[r].pc = "collect" /\ runs[r].detected = "throws"
  /\ \E r \in Slots : runs[r].pc = "collect" /\ runs[r].detected = "major_changes"


(***************************************************************************)
(* C35: a pass that finds the fingerprint of the page different from the   *)
(* stored one stores the new fingerprint and the snapshot of the page for  *)
(* the role 'listing', so the pass that follows on the same page reports   *)
(* unchanged: a layout change is reported by one pass only.                *)
(***************************************************************************)
ReportedChange(status) == status \in {"minor_changes", "major_changes"}

\* the last pass has returned after fetching a page
PassFetched == detect.st = "idle" /\ detect.cur # <<>>

ValidateNeverMutates ==
  [][score'.job = score.job /\ score'.relevance = score.relevance]_vars


(***************************************************************************)
(* C37: after any sequence of scheduler operations (initialize,            *)
(* scheduleSource, updateSchedule, stopAll, startAll, each possibly        *)
(* repeated) every source has at most one running cron task, and that task *)
(* is the one the schedules map holds, so that one tick starts at most one *)
(* collection per source.                                                  *)
(***************************************************************************)
\* the running tasks of source s, those the map has lost included
RunningTasks(s) ==
  Cardinality({t \in sched.live : t.source = s}) + Len(sched.orphans[s])

OneMappedTask(s) ==
  /\ RunningTasks(s) <= 1
  /\ \A t \in sched.live : t.source = s => sched.schedules[s] = t.expr

UpdateScheduleStep ==
  sched'.last.op = "updateSchedule" /\ sched'.ops = sched.ops + 1

FailedUpdateStep ==
  UpdateScheduleStep =>
    /\ sched'.last.threw <=> (\/ sched'.last.source \notin SchedSources
                              \/ sched'.last.expr = InvalidExpression)
    /\ sched'.last.threw =>
         /\ sched'.expr = sched.expr
         /\ sched'.isEnabled = sched.isEnabled
         /\ sched'.schedules = sched.schedules
         /\ sched'.live = sched.live
         /\ sched'.orphans = sched.orphans
         /\ sched'.inflight = sched.inflight

FailedUpdateChangesNothing == [][FailedUpdateStep]_vars

\* updateSchedule has thrown for an unknown id while source A has its task
\* running
FailedUpdateChangesNothingWitness ==
  /\ sched.last.op = "updateSchedule"
  /\ sched.last.source = UnknownSource
  /\ sched.last.threw
  /\ sched.schedules["A"] # NoTask
  /\ CronTask("A", sched.schedules["A"]) \in sched.live

\* updateSchedule has thrown for an invalid expression on a source whose
\* task is running on a valid one
FailedUpdateInvalidWitness ==
  /\ sched.last.op = "updateSchedule"
  /\ sched.last.source = "A"
  /\ sched.last.expr = InvalidExpression
  /\ sched.last.threw
  /\ sched.expr["A"] # InvalidExpression
  /\ CronTask("A", sched.expr["A"]) \in sched.live


(***************************************************************************)
(* C39: collect() of a disabled source is never invoked, whichever path    *)
(* triggers the collection: a scheduled fire, runNow, collectFromSource of *)
(* the DataCollector or of the orchestrator, or collectFromAllSources.     *)
(***************************************************************************)
DisabledNeverCollected ==
  \A r \in Slots : runs[r].pc = "collect" => enabled[runs[r].src]



(***************************************************************************)
(* C40: the store converges after a partial persistence failure.  When a   *)
(* DataCollector run of a source failed inside createJobs after creating   *)
(* some rows, and the next run of that source against the same upstream    *)
(* completes without failure, the store holds exactly one row for every    *)
(* upstream (source, externalId), and the keys the failed run created were *)
(* routed to update and not created again.                                 *)
(***************************************************************************)
\* the latest run of s completed, and the run before it had failed inside
\* createJobs with some rows created
CompletedAfterPartialCreate(s) ==
  /\ path = "datacollector"
  /\ lastRun[s].st = "ok"
  /\ lastRun[s].healed # {}

\* the keys of the records the upstream of s offers
UpstreamKeys(s) == KeysOf(upstream[s])

\* the keys of the upstream records that pass transform and validate
ValidUpstreamKeys(s) == KeysOf(ValidJobs(Transform(upstream[s])))

OneRowPerKey(s, keys) == \A k \in keys : Cardinality(RowsOf(store, s, k)) = 1

RoutedToUpdate(s) ==
  /\ lastRun[s].healed \subseteq lastRun[s].updated
  /\ lastRun[s].healed \cap lastRun[s].created = {}

ConvergesOnRepeatedKeyWitness ==
  \E s \in Sources :
    /\ CompletedAfterPartialCreate(s)
    /\ lastRun[s].created = {}
    /\ lastRun[s].updated = lastRun[s].healed

====
